---- MODULE Spec2Model ----
(***************************************************************************)
(* ACP server (NDJSON-over-stdio JSON-RPC engine) of wopr-plugin-acp.      *)
(*                                                                         *)
(* Text is a sequence of tokens.  "\n" is the newline, " " a blank, "}"    *)
(* the closing brace of a JSON object, "x" a character that belongs to no  *)
(* JSON value.  A head token (a key of Json) stands for the text of a JSON *)
(* object up to, and without, its closing brace, so that an object is two  *)
(* tokens long and a chunk boundary can fall inside it.                    *)
(*                                                                         *)
(* A JavaScript string built with "-" is a sequence of its parts:          *)
(* "acp-1" is <<"acp", "1">>.  A JSON object is a record whose domain is   *)
(* the set of keys that are present.                                       *)
(***************************************************************************)
EXTENDS Integers, Sequences, FiniteSets, TLC

VARIABLES
    started,          \* start() has attached the stream listeners
    closed,           \* AcpServer.closed
    initialized,      \* AcpServer.initialized
    buffer,           \* AcpServer.buffer
    sessions,         \* AcpServer.sessions: client session id -> backend id
    sessionCounter,   \* AcpServer.sessionCounter
    sessionContexts,  \* context.ts sessionContexts: session id -> EditorContext
    output,           \* the lines written to the output stream, in order
    pending,          \* units of work suspended on an await: unit -> closure
    wire,             \* the rest of the write that the last chunk cut
    writes,           \* history: the number of writes the client has made
    consumed,         \* history: all text that arrived in data events
    cuts,             \* history: the lengths of consumed at which a chunk ended
    ctxLog,           \* history: the calls of the functions of context.ts by a host
    closeLog,         \* history: the calls of close() and what made them
    acpServer,        \* index.ts: the module variable acpServer, null or the server
    extLog,           \* history: the calls of the plugin and its calls of ctx
    units,            \* history: the lines handed to handleLine, in order
    sendLog,          \* history: every send()/sendNotification() call
    minted,           \* history: the ids createSessionId returned, in order
    bridgeLog         \* history: every call of bridge.inject / cancelInject

vars == <<started, closed, initialized, buffer, sessions, sessionCounter,
          sessionContexts, output, pending, wire, writes, consumed, cuts,
          ctxLog, closeLog, acpServer, extLog, units, sendLog, minted, bridgeLog>>

-----------------------------------------------------------------------------
(* Bounds of the model *)

\* number of writes the client makes on the input stream
MaxWrites == 3

\* number of onStream callbacks the bridge makes in one run
MaxDeltas == 1

\* the same two bounds for the client that only chats
MaxChatWrites == 2
MaxTurnDeltas == 2

\* number of writes of the client that has several chat turns in flight
MaxTurns == 2

\* number of calls of close() that are kept in the history
MaxCloses == 2

\* number of calls a host makes of the functions of context.ts
MaxCalls == 2

\* number of calls a host makes of init and shutdown of the plugin
MaxPluginCalls == 3

-----------------------------------------------------------------------------
(* types.ts *)

RPC_PARSE_ERROR == -32700
RPC_INVALID_REQUEST == -32600
RPC_METHOD_NOT_FOUND == -32601
RPC_INVALID_PARAMS == -32602
RPC_INTERNAL_ERROR == -32603

\* the JavaScript value undefined, where a string is expected
Undefined == "undefined"

createResponse(id, result) == [jsonrpc |-> "2.0", id |-> id, result |-> result]

createError(id, code, message) ==
    [jsonrpc |-> "2.0", id |-> id, error |-> [code |-> code, message |-> message]]

\* zod: the params member is an object that has every required key
HasParams(obj, required) ==
    /\ "params" \in DOMAIN obj
    /\ required \subseteq DOMAIN obj.params

AcpInitializeRequestSchema(obj) == HasParams(obj, {"protocolVersion", "clientInfo"})
AcpChatMessageRequestSchema(obj) == HasParams(obj, {"message"})
AcpChatCancelRequestSchema(obj) == HasParams(obj, {"sessionId"})
AcpContextUpdateRequestSchema(obj) == HasParams(obj, {"sessionId", "context"})

-----------------------------------------------------------------------------
(* The JSON texts the client sends *)

NL == "\n"
SP == " "
CL == "}"

ClientInfo == [name |-> "Test", version |-> "1.0"]
Cursor1 == [path |-> "a.ts", line |-> 3, column |-> 7]
File1 == [path |-> "a.ts", content |-> "let x", language |-> "ts"]
File2 == [path |-> "b.ts"]
Cursor2 == [path |-> "b.ts", line |-> 1, column |-> 1]
Sel1 == [path |-> "a.ts", startLine |-> 1, endLine |-> 2, text |-> "let x"]
Sel2 == [path |-> "b.ts", startLine |-> 5, endLine |-> 5, text |-> "y"]
Diag1 == [path |-> "a.ts", line |-> 1, severity |-> "error", message |-> "bad"]
Diag2 == [path |-> "b.ts", line |-> 9, severity |-> "hint", message |-> "meh"]

\* head token -> the members of the object it opens
Json ==
    [ INIT     |-> [jsonrpc |-> "2.0", id |-> "1", method |-> "initialize",
                    params |-> [protocolVersion |-> "0.1.0", clientInfo |-> ClientInfo]],
      INITBAD  |-> [jsonrpc |-> "2.0", id |-> "1", method |-> "initialize",
                    params |-> [protocolVersion |-> "0.1.0"]],
      CHAT     |-> [jsonrpc |-> "2.0", id |-> "2", method |-> "chat/message",
                    params |-> [message |-> "hi"]],
      CHATS1   |-> [jsonrpc |-> "2.0", id |-> "a", method |-> "chat/message",
                    params |-> [sessionId |-> <<"s1">>, message |-> "yo"]],
      CHATBAD  |-> [jsonrpc |-> "2.0", id |-> "b", method |-> "chat/message"],
      CANCEL   |-> [jsonrpc |-> "2.0", method |-> "chat/cancel",
                    params |-> [sessionId |-> <<"acp", "1">>]],
      UPDATE   |-> [jsonrpc |-> "2.0", id |-> "3", method |-> "context/update",
                    params |-> [sessionId |-> <<"acp", "1">>,
                                context |-> [cursorPosition |-> Cursor1]]],
      PING     |-> [jsonrpc |-> "2.0", id |-> "4", method |-> "ping"],
      V1INIT   |-> [jsonrpc |-> "1.0", id |-> "5", method |-> "initialize",
                    params |-> [protocolVersion |-> "0.1.0", clientInfo |-> ClientInfo]],
      CHATCTX  |-> [jsonrpc |-> "2.0", id |-> "c", method |-> "chat/message",
                    params |-> [sessionId |-> <<"acp", "1">>, message |-> "fix",
                                context |-> [selection |-> Sel2]]],
      CHAT1    |-> [jsonrpc |-> "2.0", id |-> "d", method |-> "chat/message",
                    params |-> [sessionId |-> <<"1">>, message |-> "yo"]],
      NOVER    |-> [method |-> "chat/message", params |-> [message |-> "hi"]],
      NOMETHOD |-> [jsonrpc |-> "2.0", id |-> "6"] ]

Heads == DOMAIN Json

-----------------------------------------------------------------------------
(* server.ts: NDJSON parser *)

\* the JSON value null; parseNdjsonLine returns it on failure as well
Null == [kind |-> "null"]

IsBlank(line) == \A i \in 1..Len(line) : line[i] = SP

\* String.prototype.trim
RECURSIVE TrimLeft(_)
TrimLeft(s) == IF s # <<>> /\ Head(s) = SP THEN TrimLeft(Tail(s)) ELSE s

RECURSIVE TrimRight(_)
TrimRight(s) ==
    IF s # <<>> /\ s[Len(s)] = SP THEN TrimRight(SubSeq(s, 1, Len(s) - 1)) ELSE s

trim(s) == TrimRight(TrimLeft(s))

\* JSON.parse: the value, or Failed when it throws SyntaxError
Failed == [kind |-> "SyntaxError"]

JSONparse(text) ==
    LET w == SelectSeq(text, LAMBDA c : c # SP)   \* blanks between tokens
    IN  IF Len(w) = 2 /\ w[1] \in Heads /\ w[2] = CL
          THEN [kind |-> "object", obj |-> Json[w[1]]]
          ELSE IF w = <<"null">> THEN Null
          ELSE IF w = <<"7">> THEN [kind |-> "number"]
          ELSE Failed

parseNdjsonLine(line) ==
    LET trimmed == trim(line)
    IN  IF trimmed = <<>> THEN Null
        ELSE IF JSONparse(trimmed) = Failed THEN Null
        ELSE JSONparse(trimmed)

\* JSON.stringify leaves out the members whose value is undefined
serializeNdjson(msg) ==
    IF "id" \in DOMAIN msg /\ msg.id = Undefined
      THEN [k \in DOMAIN msg \ {"id"} |-> msg[k]]
      ELSE msg

\* msg.<key> of a parsed value, for the string-valued members
Member(msg, key) ==
    IF msg.kind = "object" /\ key \in DOMAIN msg.obj THEN msg.obj[key] ELSE Undefined

\* String.prototype.split("\n"): the segments between newlines, at least one
RECURSIVE split(_)
split(text) ==
    IF \A i \in 1..Len(text) : text[i] # NL THEN <<text>>
    ELSE LET i == CHOOSE j \in 1..Len(text) :
                      text[j] = NL /\ \A k \in 1..(j - 1) : text[k] # NL
         IN  <<SubSeq(text, 1, i - 1)>> \o split(SubSeq(text, i + 1, Len(text)))

-----------------------------------------------------------------------------
(* context.ts *)

ContextFields == {"files", "selection", "diagnostics", "cursorPosition"}

\* a Map as a function; get() of a missing key is undefined
MapSet(map, key, value) ==
    [k \in DOMAIN map \cup {key} |-> IF k = key THEN value ELSE map[k]]

MapDelete(map, key) == [k \in DOMAIN map \ {key} |-> map[k]]

\* the merged record: fields of ctx overwrite, absent fields keep the old value
MergeContext(existing, ctx) ==
    [f \in DOMAIN existing \cup (DOMAIN ctx \cap ContextFields) |->
        IF f \in DOMAIN ctx THEN ctx[f] ELSE existing[f]]

\* updateEditorContext that stores the new context in place of the old record
updateEditorContext_Replace(store, sessionId, params) ==
    MapSet(store, sessionId, MergeContext(<<>>, params.context))

\* updateEditorContext that adds the new files to the files it has
updateEditorContext_AppendFiles(store, sessionId, params) ==
    LET existing == IF sessionId \in DOMAIN store THEN store[sessionId] ELSE <<>>
        merged == MergeContext(existing, params.context)
    IN  MapSet(store, sessionId,
               IF "files" \in DOMAIN existing /\ "files" \in DOMAIN params.context
                 THEN [merged EXCEPT !.files = existing.files \o params.context.files]
                 ELSE merged)

updateEditorContext(store, sessionId, params) ==
    LET existing == IF sessionId \in DOMAIN store THEN store[sessionId] ELSE <<>>
    IN  MapSet(store, sessionId, MergeContext(existing, params.context))

clearEditorContext(store, sessionId) == MapDelete(store, sessionId)

\* a line of three backquotes followed by lang
Fence(lang) == [k |-> "fence", lang |-> lang]
TextLine(text) == [k |-> "text", text |-> text]

FileParts(file) ==
    IF "content" \in DOMAIN file /\ file.content # ""
      THEN << [k |-> "File: ", path |-> file.path],
              Fence(IF "language" \in DOMAIN file THEN file.language ELSE ""),
              TextLine(file.content),
              Fence("") >>
      ELSE << [k |-> "Open file: ", path |-> file.path] >>

RECURSIVE FilesParts(_)
FilesParts(files) ==
    IF files = <<>> THEN <<>> ELSE FileParts(Head(files)) \o FilesParts(Tail(files))

RECURSIVE DiagnosticLines(_)
DiagnosticLines(ds) ==
    IF ds = <<>> THEN <<>>
    ELSE << [k |-> "  [", severity |-> Head(ds).severity, path |-> Head(ds).path,
             line |-> Head(ds).line, message |-> Head(ds).message] >>
         \o DiagnosticLines(Tail(ds))

\* A string is the sequence of its parts between "-"; the empty string has one
\* part, and NoSession stands for an argument that is not given (undefined).
EmptyString == <<"">>
NoSession == <<>>

\* the four blocks formatEditorContext pushes onto parts, each a sequence of lines
contextParts(store, params, sessionId) ==
    LET stored == IF sessionId \notin {NoSession, EmptyString} /\ sessionId \in DOMAIN store
                    THEN store[sessionId] ELSE <<>>
        inline == IF "context" \in DOMAIN params THEN params.context ELSE <<>>
        Has(f) == f \in DOMAIN inline \/ f \in DOMAIN stored
        Val(f) == IF f \in DOMAIN inline THEN inline[f] ELSE stored[f]
        cursor == IF Has("cursorPosition")
                    THEN << [k |-> "Cursor: ", path |-> Val("cursorPosition").path,
                             line |-> Val("cursorPosition").line,
                             column |-> Val("cursorPosition").column] >>
                    ELSE <<>>
        selection == IF Has("selection")
                       THEN << [k |-> "Selected text in ", path |-> Val("selection").path,
                                startLine |-> Val("selection").startLine,
                                endLine |-> Val("selection").endLine],
                               Fence(""),
                               TextLine(Val("selection").text),
                               Fence("") >>
                       ELSE <<>>
        files == IF Has("files") THEN FilesParts(Val("files")) ELSE <<>>
        diagnostics == IF Has("diagnostics") /\ Val("diagnostics") # <<>>
                         THEN << [k |-> "Diagnostics:"] >>
                              \o DiagnosticLines(Val("diagnostics"))
                         ELSE <<>>
    IN  [cursor |-> cursor, selection |-> selection, files |-> files,
         diagnostics |-> diagnostics]

\* formatEditorContext pushing the diagnostics before the files
formatEditorContext_DiagnosticsFirst(store, params, sessionId) ==
    LET parts == contextParts(store, params, sessionId)
    IN  parts.cursor \o parts.selection \o parts.diagnostics \o parts.files

\* the lines of the text formatEditorContext returns (joined by "\n" there)
formatEditorContext(store, params, sessionId) ==
    LET parts == contextParts(store, params, sessionId)
    IN  parts.cursor \o parts.selection \o parts.files \o parts.diagnostics

-----------------------------------------------------------------------------
(* server.ts: AcpServer.  The handlers work on a record e of the fields of    *)
(* the engine and the history; u is the number of the unit of work (the index of *)
(* its line in units).                                                       *)

\* AcpServerOptions.defaultSession ?? "acp"
defaultSession == <<"acp">>

\* the decimal text of a counter value
NumStr(n) == <<"0", "1", "2", "3", "4", "5", "6", "7", "8", "9">>[n + 1]

\* send without its check of the closed flag
send_Ungated(e, u, msg) ==
    [e EXCEPT !.sendLog = Append(@, [unit |-> u, frame |-> serializeNdjson(msg),
                                     written |-> TRUE]),
              !.output = Append(@, serializeNdjson(msg))]

send(e, u, msg) ==
    IF e.closed
      THEN [e EXCEPT !.sendLog = Append(@, [unit |-> u, frame |-> serializeNdjson(msg),
                                            written |-> FALSE])]
      ELSE [e EXCEPT !.sendLog = Append(@, [unit |-> u, frame |-> serializeNdjson(msg),
                                            written |-> TRUE]),
                     !.output = Append(@, serializeNdjson(msg))]

sendNotification(e, u, method, params) ==
    send(e, u, [jsonrpc |-> "2.0", method |-> method, params |-> params])

\* the id minted, after ++sessionCounter
MintedId(e) == <<"acp", NumStr(e.sessionCounter + 1)>>

\* createSessionId with the counter read but not advanced
createSessionId_NoIncrement(e) ==
    [e EXCEPT !.minted = Append(@, MintedId(e)),
              !.sessions = MapSet(@, MintedId(e),
                                  defaultSession \o <<NumStr(e.sessionCounter + 1)>>)]

createSessionId(e) ==
    [e EXCEPT !.sessionCounter = @ + 1,
              !.minted = Append(@, MintedId(e)),
              !.sessions = MapSet(@, MintedId(e),
                                  defaultSession \o <<NumStr(e.sessionCounter + 1)>>)]

resolveWoprSession(e, sessionId) ==
    IF sessionId \in DOMAIN e.sessions
      THEN e
      ELSE [e EXCEPT !.sessions = MapSet(@, sessionId, defaultSession \o sessionId)]

\* what a call of the bridge can do: return a value, or throw / reject
Error(message) == [isError |-> TRUE, message |-> message]
InjectThrows == { Error("boom") }
CancelOutcomes == { [ret |-> TRUE], [ret |-> FALSE],
                    [throw |-> [isError |-> FALSE, text |-> "oops"]] }
Responses == { "pong" }
DeltaTypes == { "text", "tool" }

\* err instanceof Error ? err.message : String(err)
ErrMsg(err) == IF err.isError THEN <<err.message>> ELSE <<err.text>>

CancelCalls(log) == Len(SelectSeq(log, LAMBDA c : c.op = "cancelInject"))

\* a catch block that logs the error and sends nothing
catch_LogOnly(e, u, id, err) == e

\* a catch block that ends the stream of a failed chat turn before it sends
\* the error
catch_EndsStream(e, u, id, err) ==
    LET e1 == IF "sessionId" \in DOMAIN e.pending[u]
                THEN sendNotification(e, u, "chat/streamEnd",
                                      [sessionId |-> e.pending[u].sessionId])
                ELSE e
    IN  send(e1, u, createError(id, RPC_INTERNAL_ERROR, ErrMsg(err)))

\* the catch block of handleLine
catch(e, u, id, err) == send(e, u, createError(id, RPC_INTERNAL_ERROR, ErrMsg(err)))

\* handleInitialize that sets the flag before it validates the params
handleInitialize_SetsFirst(e, u, obj, id) ==
    LET e0 == [e EXCEPT !.initialized = TRUE]
    IN  IF ~AcpInitializeRequestSchema(obj)
          THEN send(e0, u, createError(id, RPC_INVALID_PARAMS, <<"Invalid initialize params">>))
          ELSE send(e0, u,
                    createResponse(id, [protocolVersion |-> "0.1.0",
                                        serverInfo |-> [name |-> "wopr-acp", version |-> "1.0.0"],
                                        capabilities |-> [context |-> TRUE, streaming |-> TRUE]]))

handleInitialize(e, u, obj, id) ==
    IF ~AcpInitializeRequestSchema(obj)
      THEN send(e, u, createError(id, RPC_INVALID_PARAMS, <<"Invalid initialize params">>))
      ELSE send([e EXCEPT !.initialized = TRUE], u,
                createResponse(id, [protocolVersion |-> "0.1.0",
                                    serverInfo |-> [name |-> "wopr-acp", version |-> "1.0.0"],
                                    capabilities |-> [context |-> TRUE, streaming |-> TRUE]]))

\* handleChatMessage joining the context and the message without testing
\* whether the context is empty
handleChatMessage_AlwaysJoins(e, u, obj, id) ==
    IF ~e.initialized
      THEN send(e, u, createError(id, RPC_INVALID_REQUEST, <<"Not initialized">>))
    ELSE IF ~AcpChatMessageRequestSchema(obj)
      THEN send(e, u, createError(id, RPC_INVALID_PARAMS, <<"Invalid chat/message params">>))
    ELSE
      LET params == obj.params
          absent == "sessionId" \notin DOMAIN params
          sessionId == IF absent THEN MintedId(e) ELSE params.sessionId
          e1 == IF absent THEN createSessionId(e) ELSE e
          e2 == resolveWoprSession(e1, sessionId)
          woprSession == e2.sessions[sessionId]
          editorContext == formatEditorContext(e2.sessionContexts, params, sessionId)
          fullMessage == editorContext \o <<TextLine(""), TextLine(params.message)>>
      IN  [e2 EXCEPT
             !.bridgeLog = Append(@, [op |-> "inject", unit |-> u, session |-> woprSession,
                                      message |-> fullMessage, silent |-> TRUE,
                                      from |-> "acp"]),
             !.pending = MapSet(@, u, [await |-> "inject", id |-> id,
                                       sessionId |-> sessionId, deltas |-> 0])]

\* handleChatMessage handing the session id of the client to the bridge
handleChatMessage_ClientId(e, u, obj, id) ==
    IF ~e.initialized
      THEN send(e, u, createError(id, RPC_INVALID_REQUEST, <<"Not initialized">>))
    ELSE IF ~AcpChatMessageRequestSchema(obj)
      THEN send(e, u, createError(id, RPC_INVALID_PARAMS, <<"Invalid chat/message params">>))
    ELSE
      LET params == obj.params
          absent == "sessionId" \notin DOMAIN params
          sessionId == IF absent THEN MintedId(e) ELSE params.sessionId
          e1 == IF absent THEN createSessionId(e) ELSE e
          e2 == resolveWoprSession(e1, sessionId)
          woprSession == e2.sessions[sessionId]
          editorContext == formatEditorContext(e2.sessionContexts, params, sessionId)
          fullMessage == IF editorContext # <<>>
                           THEN editorContext \o <<TextLine(""), TextLine(params.message)>>
                           ELSE <<TextLine(params.message)>>
      IN  [e2 EXCEPT
             !.bridgeLog = Append(@, [op |-> "inject", unit |-> u, session |-> sessionId,
                                      message |-> fullMessage, silent |-> TRUE,
                                      from |-> "acp"]),
             !.pending = MapSet(@, u, [await |-> "inject", id |-> id,
                                       sessionId |-> sessionId, deltas |-> 0])]

\* handleChatMessage that stores the inline context of the request in the
\* Context Store before it formats
handleChatMessage_StoresInline(e, u, obj, id) ==
    IF ~e.initialized
      THEN send(e, u, createError(id, RPC_INVALID_REQUEST, <<"Not initialized">>))
    ELSE IF ~AcpChatMessageRequestSchema(obj)
      THEN send(e, u, createError(id, RPC_INVALID_PARAMS, <<"Invalid chat/message params">>))
    ELSE
      LET params == obj.params
          absent == "sessionId" \notin DOMAIN params
          sessionId == IF absent THEN MintedId(e) ELSE params.sessionId
          e1 == IF absent THEN createSessionId(e) ELSE e
          e2 == resolveWoprSession(e1, sessionId)
          e3 == IF "context" \in DOMAIN params
                  THEN [e2 EXCEPT !.sessionContexts =
                                      updateEditorContext(@, sessionId, params)]
                  ELSE e2
          woprSession == e3.sessions[sessionId]
          editorContext == formatEditorContext(e3.sessionContexts, params, sessionId)
          fullMessage == IF editorContext # <<>>
                           THEN editorContext \o <<TextLine(""), TextLine(params.message)>>
                           ELSE <<TextLine(params.message)>>
      IN  [e3 EXCEPT
             !.bridgeLog = Append(@, [op |-> "inject", unit |-> u, session |-> woprSession,
                                      message |-> fullMessage, silent |-> TRUE,
                                      from |-> "acp"]),
             !.pending = MapSet(@, u, [await |-> "inject", id |-> id,
                                       sessionId |-> sessionId, deltas |-> 0])]

\* handleChatMessage that mints the session id before it validates the params
handleChatMessage_MintsFirst(e, u, obj, id) ==
    IF ~e.initialized
      THEN send(e, u, createError(id, RPC_INVALID_REQUEST, <<"Not initialized">>))
    ELSE IF ~AcpChatMessageRequestSchema(obj)
      THEN LET e1 == createSessionId(e)
               e2 == resolveWoprSession(e1, MintedId(e))
           IN  send(e2, u, createError(id, RPC_INVALID_PARAMS,
                                       <<"Invalid chat/message params">>))
    ELSE
      LET params == obj.params
          absent == "sessionId" \notin DOMAIN params
          sessionId == IF absent THEN MintedId(e) ELSE params.sessionId
          e1 == IF absent THEN createSessionId(e) ELSE e
          e2 == resolveWoprSession(e1, sessionId)
          woprSession == e2.sessions[sessionId]
          editorContext == formatEditorContext(e2.sessionContexts, params, sessionId)
          fullMessage == IF editorContext # <<>>
                           THEN editorContext \o <<TextLine(""), TextLine(params.message)>>
                           ELSE <<TextLine(params.message)>>
      IN  [e2 EXCEPT
             !.bridgeLog = Append(@, [op |-> "inject", unit |-> u, session |-> woprSession,
                                      message |-> fullMessage, silent |-> TRUE,
                                      from |-> "acp"]),
             !.pending = MapSet(@, u, [await |-> "inject", id |-> id,
                                       sessionId |-> sessionId, deltas |-> 0])]

\* up to the await of bridge.inject: the call is made and the unit suspends
handleChatMessage(e, u, obj, id) ==
    IF ~e.initialized
      THEN send(e, u, createError(id, RPC_INVALID_REQUEST, <<"Not initialized">>))
    ELSE IF ~AcpChatMessageRequestSchema(obj)
      THEN send(e, u, createError(id, RPC_INVALID_PARAMS, <<"Invalid chat/message params">>))
    ELSE
      LET params == obj.params
          absent == "sessionId" \notin DOMAIN params
          sessionId == IF absent THEN MintedId(e) ELSE params.sessionId
          e1 == IF absent THEN createSessionId(e) ELSE e
          e2 == resolveWoprSession(e1, sessionId)
          woprSession == e2.sessions[sessionId]
          editorContext == formatEditorContext(e2.sessionContexts, params, sessionId)
          fullMessage == IF editorContext # <<>>
                           THEN editorContext \o <<TextLine(""), TextLine(params.message)>>
                           ELSE <<TextLine(params.message)>>
      IN  [e2 EXCEPT
             !.bridgeLog = Append(@, [op |-> "inject", unit |-> u, session |-> woprSession,
                                      message |-> fullMessage, silent |-> TRUE,
                                      from |-> "acp"]),
             !.pending = MapSet(@, u, [await |-> "inject", id |-> id,
                                       sessionId |-> sessionId, deltas |-> 0])]

\* handleChatCancel without its check of the initialized flag
handleChatCancel_Ungated(e, u, obj, id, oc) ==
    IF ~AcpChatCancelRequestSchema(obj)
      THEN send(e, u, createError(id, RPC_INVALID_PARAMS, <<"Invalid chat/cancel params">>))
    ELSE IF obj.params.sessionId \in DOMAIN e.sessions
      THEN send(e, u, createResponse(id, [cancelled |-> TRUE]))
      ELSE send(e, u, createResponse(id, [cancelled |-> FALSE]))

\* handleChatCancel that looks the session up with resolveWoprSession, which
\* binds an unknown id, and so always asks the bridge
handleChatCancel_Resolves(e, u, obj, id, oc) ==
    IF ~e.initialized
      THEN send(e, u, createError(id, RPC_INVALID_REQUEST, <<"Not initialized">>))
    ELSE IF ~AcpChatCancelRequestSchema(obj)
      THEN send(e, u, createError(id, RPC_INVALID_PARAMS, <<"Invalid chat/cancel params">>))
    ELSE LET e0 == resolveWoprSession(e, obj.params.sessionId)
             outcome == oc[CancelCalls(e.bridgeLog) + 1]
             e1 == [e0 EXCEPT !.bridgeLog =
                       Append(@, [op |-> "cancelInject", unit |-> u,
                                  session |-> e0.sessions[obj.params.sessionId],
                                  outcome |-> outcome])]
         IN  IF "ret" \in DOMAIN outcome
               THEN send(e1, u, createResponse(id, [cancelled |-> outcome.ret]))
               ELSE [e1 EXCEPT !.pending =
                        MapSet(@, u, [await |-> "catch", id |-> id, err |-> outcome.throw])]

\* handleChatCancel that hands the bridge the session id of the client
handleChatCancel_ClientId(e, u, obj, id, oc) ==
    IF ~e.initialized
      THEN send(e, u, createError(id, RPC_INVALID_REQUEST, <<"Not initialized">>))
    ELSE IF ~AcpChatCancelRequestSchema(obj)
      THEN send(e, u, createError(id, RPC_INVALID_PARAMS, <<"Invalid chat/cancel params">>))
    ELSE IF obj.params.sessionId \in DOMAIN e.sessions
      THEN LET outcome == oc[CancelCalls(e.bridgeLog) + 1]
               e1 == [e EXCEPT !.bridgeLog =
                         Append(@, [op |-> "cancelInject", unit |-> u,
                                    session |-> obj.params.sessionId,
                                    outcome |-> outcome])]
           IN  IF "ret" \in DOMAIN outcome
                 THEN send(e1, u, createResponse(id, [cancelled |-> outcome.ret]))
                 ELSE [e1 EXCEPT !.pending =
                          MapSet(@, u, [await |-> "catch", id |-> id, err |-> outcome.throw])]
      ELSE send(e, u, createResponse(id, [cancelled |-> FALSE]))

\* handleChatCancel that, when the bridge reports a cancellation, drops the
\* suspended turns of the session, so that they never send their end
handleChatCancel_Aborts(e, u, obj, id, oc) ==
    IF ~e.initialized
      THEN send(e, u, createError(id, RPC_INVALID_REQUEST, <<"Not initialized">>))
    ELSE IF ~AcpChatCancelRequestSchema(obj)
      THEN send(e, u, createError(id, RPC_INVALID_PARAMS, <<"Invalid chat/cancel params">>))
    ELSE IF obj.params.sessionId \in DOMAIN e.sessions
      THEN LET woprSession == e.sessions[obj.params.sessionId]
               outcome == oc[CancelCalls(e.bridgeLog) + 1]
               e1 == [e EXCEPT !.bridgeLog =
                         Append(@, [op |-> "cancelInject", unit |-> u,
                                    session |-> woprSession, outcome |-> outcome])]
               kept == { v \in DOMAIN e.pending :
                           ~(/\ e.pending[v].await = "inject"
                             /\ e.pending[v].sessionId = obj.params.sessionId) }
           IN  IF "ret" \in DOMAIN outcome
                 THEN send([e1 EXCEPT !.pending =
                               IF outcome.ret THEN [v \in kept |-> e.pending[v]] ELSE @],
                           u, createResponse(id, [cancelled |-> outcome.ret]))
                 ELSE [e1 EXCEPT !.pending =
                          MapSet(@, u, [await |-> "catch", id |-> id, err |-> outcome.throw])]
      ELSE send(e, u, createResponse(id, [cancelled |-> FALSE]))

\* oc: what each call of bridge.cancelInject does, by the number of the call
handleChatCancel(e, u, obj, id, oc) ==
    IF ~e.initialized
      THEN send(e, u, createError(id, RPC_INVALID_REQUEST, <<"Not initialized">>))
    ELSE IF ~AcpChatCancelRequestSchema(obj)
      THEN send(e, u, createError(id, RPC_INVALID_PARAMS, <<"Invalid chat/cancel params">>))
    ELSE IF obj.params.sessionId \in DOMAIN e.sessions
      THEN LET woprSession == e.sessions[obj.params.sessionId]
               outcome == oc[CancelCalls(e.bridgeLog) + 1]
               e1 == [e EXCEPT !.bridgeLog =
                         Append(@, [op |-> "cancelInject", unit |-> u,
                                    session |-> woprSession, outcome |-> outcome])]
           IN  IF "ret" \in DOMAIN outcome
                 THEN send(e1, u, createResponse(id, [cancelled |-> outcome.ret]))
                 ELSE [e1 EXCEPT !.pending =
                          MapSet(@, u, [await |-> "catch", id |-> id, err |-> outcome.throw])]
      ELSE send(e, u, createResponse(id, [cancelled |-> FALSE]))

\* handleContextUpdate that stores the context without registering the session
handleContextUpdate_Unregistered(e, u, obj, id) ==
    IF ~e.initialized
      THEN send(e, u, createError(id, RPC_INVALID_REQUEST, <<"Not initialized">>))
    ELSE IF ~AcpContextUpdateRequestSchema(obj)
      THEN send(e, u, createError(id, RPC_INVALID_PARAMS, <<"Invalid context/update params">>))
    ELSE send([e EXCEPT !.sessionContexts =
                            updateEditorContext(@, obj.params.sessionId, obj.params)],
              u, createResponse(id, [ok |-> TRUE]))

\* handleContextUpdate without the return after its "Not initialized" error
handleContextUpdate_NoReturn(e, u, obj, id) ==
    LET e0 == IF ~e.initialized
                THEN send(e, u, createError(id, RPC_INVALID_REQUEST, <<"Not initialized">>))
                ELSE e
    IN  IF ~AcpContextUpdateRequestSchema(obj)
          THEN send(e0, u, createError(id, RPC_INVALID_PARAMS,
                                       <<"Invalid context/update params">>))
          ELSE send([resolveWoprSession(e0, obj.params.sessionId) EXCEPT
                        !.sessionContexts =
                            updateEditorContext(@, obj.params.sessionId, obj.params)],
                    u, createResponse(id, [ok |-> TRUE]))

handleContextUpdate(e, u, obj, id) ==
    IF ~e.initialized
      THEN send(e, u, createError(id, RPC_INVALID_REQUEST, <<"Not initialized">>))
    ELSE IF ~AcpContextUpdateRequestSchema(obj)
      THEN send(e, u, createError(id, RPC_INVALID_PARAMS, <<"Invalid context/update params">>))
    ELSE
      LET sessionId == obj.params.sessionId
          e1 == resolveWoprSession(e, sessionId)
          e2 == [e1 EXCEPT !.sessionContexts = updateEditorContext(@, sessionId, obj.params)]
      IN  send(e2, u, createResponse(id, [ok |-> TRUE]))

\* handleLine that rejects a version only when the frame has a jsonrpc member
handleLine_VersionLoose(e, u, line, oc) ==
    LET msg == parseNdjsonLine(line)
        id == Member(msg, "id")
        method == Member(msg, "method")
    IN  IF msg = Null
          THEN send(e, u, createError(Undefined, RPC_PARSE_ERROR, <<"Parse error">>))
        ELSE IF Member(msg, "jsonrpc") \notin {"2.0", Undefined}
          THEN send(e, u, createError(id, RPC_INVALID_REQUEST, <<"Invalid JSON-RPC version">>))
        ELSE CASE method = "initialize" -> handleInitialize(e, u, msg.obj, id)
               [] method = "chat/message" -> handleChatMessage(e, u, msg.obj, id)
               [] method = "chat/cancel" -> handleChatCancel(e, u, msg.obj, id, oc)
               [] method = "context/update" -> handleContextUpdate(e, u, msg.obj, id)
               [] OTHER ->
                    send(e, u, createError(id, RPC_METHOD_NOT_FOUND,
                                           <<"Unknown method: ", method>>))

\* handleLine that drops a line it cannot parse without an answer
handleLine_DropsGarbage(e, u, line, oc) ==
    LET msg == parseNdjsonLine(line)
        id == Member(msg, "id")
        method == Member(msg, "method")
    IN  IF msg = Null
          THEN e
        ELSE IF Member(msg, "jsonrpc") # "2.0"
          THEN send(e, u, createError(id, RPC_INVALID_REQUEST, <<"Invalid JSON-RPC version">>))
        ELSE CASE method = "initialize" -> handleInitialize(e, u, msg.obj, id)
               [] method = "chat/message" -> handleChatMessage(e, u, msg.obj, id)
               [] method = "chat/cancel" -> handleChatCancel(e, u, msg.obj, id, oc)
               [] method = "context/update" -> handleContextUpdate(e, u, msg.obj, id)
               [] OTHER ->
                    send(e, u, createError(id, RPC_METHOD_NOT_FOUND,
                                           <<"Unknown method: ", method>>))

\* handleLine that requires the handshake for the methods it does not know
handleLine_GatesUnknown(e, u, line, oc) ==
    LET msg == parseNdjsonLine(line)
        id == Member(msg, "id")
        method == Member(msg, "method")
    IN  IF msg = Null
          THEN send(e, u, createError(Undefined, RPC_PARSE_ERROR, <<"Parse error">>))
        ELSE IF Member(msg, "jsonrpc") # "2.0"
          THEN send(e, u, createError(id, RPC_INVALID_REQUEST, <<"Invalid JSON-RPC version">>))
        ELSE CASE method = "initialize" -> handleInitialize(e, u, msg.obj, id)
               [] method = "chat/message" -> handleChatMessage(e, u, msg.obj, id)
               [] method = "chat/cancel" -> handleChatCancel(e, u, msg.obj, id, oc)
               [] method = "context/update" -> handleContextUpdate(e, u, msg.obj, id)
               [] OTHER ->
                    IF ~e.initialized
                      THEN send(e, u, createError(id, RPC_INVALID_REQUEST,
                                                  <<"Not initialized">>))
                      ELSE send(e, u, createError(id, RPC_METHOD_NOT_FOUND,
                                                  <<"Unknown method: ", method>>))

\* the synchronous part of handleLine, for unit u
handleLine(e, u, line, oc) ==
    LET msg == parseNdjsonLine(line)
        id == Member(msg, "id")
        method == Member(msg, "method")
    IN  IF msg = Null
          THEN send(e, u, createError(Undefined, RPC_PARSE_ERROR, <<"Parse error">>))
        ELSE IF Member(msg, "jsonrpc") # "2.0"
          THEN send(e, u, createError(id, RPC_INVALID_REQUEST, <<"Invalid JSON-RPC version">>))
        ELSE CASE method = "initialize" -> handleInitialize(e, u, msg.obj, id)
               [] method = "chat/message" -> handleChatMessage(e, u, msg.obj, id)
               [] method = "chat/cancel" -> handleChatCancel(e, u, msg.obj, id, oc)
               [] method = "context/update" -> handleContextUpdate(e, u, msg.obj, id)
               [] OTHER ->
                    send(e, u, createError(id, RPC_METHOD_NOT_FOUND,
                                           <<"Unknown method: ", method>>))

\* a loop that hands blank lines to handleLine as well
RECURSIVE Dispatch_NoSkip(_, _, _)
Dispatch_NoSkip(e, lines, oc) ==
    IF lines = <<>> THEN e
    ELSE Dispatch_NoSkip(handleLine([e EXCEPT !.units = Append(@, Head(lines))],
                                    Len(e.units) + 1, Head(lines), oc),
                         Tail(lines), oc)

\* a loop that stops after the first line it handles
Dispatch_FirstOnly(e, lines, oc) ==
    LET rest == SelectSeq(lines, LAMBDA l : trim(l) # <<>>)
    IN  IF rest = <<>> THEN e
        ELSE handleLine([e EXCEPT !.units = Append(@, Head(rest))],
                        Len(e.units) + 1, Head(rest), oc)

\* a loop that awaits each handler: it handles no further line while a chat
\* turn waits on bridge.inject
RECURSIVE Dispatch_Awaits(_, _, _)
Dispatch_Awaits(e, lines, oc) ==
    IF lines = <<>> THEN e
    ELSE IF \E v \in DOMAIN e.pending : e.pending[v].await = "inject" THEN e
    ELSE IF trim(Head(lines)) = <<>> THEN Dispatch_Awaits(e, Tail(lines), oc)
    ELSE LET u == Len(e.units) + 1
             e1 == [e EXCEPT !.units = Append(@, Head(lines))]
         IN  Dispatch_Awaits(handleLine(e1, u, Head(lines), oc), Tail(lines), oc)

\* a loop that handles the lines of a chunk from the last to the first
RECURSIVE Dispatch_LastFirst(_, _, _)
Dispatch_LastFirst(e, lines, oc) ==
    IF lines = <<>> THEN e
    ELSE LET last == lines[Len(lines)]
             rest == SubSeq(lines, 1, Len(lines) - 1)
         IN  IF trim(last) = <<>> THEN Dispatch_LastFirst(e, rest, oc)
             ELSE Dispatch_LastFirst(
                      handleLine([e EXCEPT !.units = Append(@, last)],
                                 Len(e.units) + 1, last, oc),
                      rest, oc)

\* the for loop of onData
RECURSIVE Dispatch(_, _, _)
Dispatch(e, lines, oc) ==
    IF lines = <<>> THEN e
    ELSE IF trim(Head(lines)) = <<>> THEN Dispatch(e, Tail(lines), oc)
    ELSE LET u == Len(e.units) + 1
             e1 == [e EXCEPT !.units = Append(@, Head(lines))]
         IN  Dispatch(handleLine(e1, u, Head(lines), oc), Tail(lines), oc)

\* onData that splits the chunk alone and drops what it had buffered
onData_ForgetsBuffer(e, chunk, oc) ==
    LET lines == split(chunk)
        e1 == [e EXCEPT !.buffer = lines[Len(lines)]]
    IN  Dispatch(e1, SubSeq(lines, 1, Len(lines) - 1), oc)

onData(e, chunk, oc) ==
    LET lines == split(e.buffer \o chunk)
        e1 == [e EXCEPT !.buffer = lines[Len(lines)]]
    IN  Dispatch(e1, SubSeq(lines, 1, Len(lines) - 1), oc)

\* the loop of close() over sessions.keys()
RECURSIVE ClearAll(_, _)
ClearAll(store, keys) ==
    IF keys = {} THEN store
    ELSE LET k == CHOOSE x \in keys : TRUE
         IN  ClearAll(clearEditorContext(store, k), keys \ {k})

\* close() that first dispatches what the buffer holds as a last line
close_Flushes(e) ==
    IF e.closed THEN e
    ELSE LET e1 == Dispatch([e EXCEPT !.buffer = <<>>], <<e.buffer>>, <<>>)
         IN  [e1 EXCEPT !.closed = TRUE,
                        !.sessionContexts = ClearAll(@, DOMAIN e1.sessions),
                        !.sessions = <<>>]

\* close() without the test of this.closed: it cleans up at every call
close_NoGuard(e) ==
    [e EXCEPT !.closed = TRUE,
              !.sessionContexts = ClearAll(@, DOMAIN e.sessions),
              !.sessions = <<>>]

\* close() that cleans up but does not set this.closed
close_StaysOpen(e) ==
    IF e.closed THEN e
    ELSE [e EXCEPT !.sessionContexts = ClearAll(@, DOMAIN e.sessions),
                   !.sessions = <<>>]

close(e) ==
    IF e.closed THEN e
    ELSE [e EXCEPT !.closed = TRUE,
                   !.sessionContexts = ClearAll(@, DOMAIN e.sessions),
                   !.sessions = <<>>]

\* chatCompleted that ends the stream of every turn in flight before it
\* answers its own
chatCompleted_EndsAll(e, u, response) ==
    LET c == e.pending[u]
        others == {v \in DOMAIN e.pending \ {u} : e.pending[v].await = "inject"}
        e1 == sendNotification(e, u, "chat/streamEnd", [sessionId |-> c.sessionId])
        e2 == IF others = {}
                THEN e1
                ELSE LET v == CHOOSE v \in others : TRUE
                     IN  sendNotification(e1, v, "chat/streamEnd",
                                          [sessionId |-> e.pending[v].sessionId])
    IN  send(e2, u, createResponse(c.id, [sessionId |-> c.sessionId, content |-> response]))

\* chatCompleted with the final response sent before chat/streamEnd
chatCompleted_ResponseFirst(e, u, response) ==
    LET c == e.pending[u]
        e1 == send(e, u, createResponse(c.id, [sessionId |-> c.sessionId,
                                               content |-> response]))
    IN  sendNotification(e1, u, "chat/streamEnd", [sessionId |-> c.sessionId])

\* chatCompleted that answers with the id of the line handled last instead of
\* the id its own call of handleLine holds
chatCompleted_LastId(e, u, response) ==
    LET c == e.pending[u]
        last == Member(parseNdjsonLine(e.units[Len(e.units)]), "id")
        e1 == sendNotification(e, u, "chat/streamEnd", [sessionId |-> c.sessionId])
    IN  send(e1, u, createResponse(last, [sessionId |-> c.sessionId, content |-> response]))

\* the continuation of handleChatMessage after the await: the turn completed
chatCompleted(e, u, response) ==
    LET c == e.pending[u]
        e1 == sendNotification(e, u, "chat/streamEnd", [sessionId |-> c.sessionId])
    IN  send(e1, u, createResponse(c.id, [sessionId |-> c.sessionId, content |-> response]))

\* the onStream callback handed to bridge.inject
onStream(e, u, streamMsg) ==
    IF streamMsg.type = "text"
      THEN sendNotification(e, u, "chat/streamChunk",
                            [sessionId |-> e.pending[u].sessionId, delta |-> streamMsg.content])
      ELSE e

-----------------------------------------------------------------------------
(* The state machine *)

\* the text of one frame on the wire
Frame(head) == <<head, CL, NL>>

\* what the client writes in one write
Requests == { Frame(h) : h \in {"INIT", "CHAT", "CHATBAD", "CANCEL", "UPDATE"} }

\* the writes of a client that only chats
Chats == { Frame(h) : h \in {"INIT", "CHAT", "CHATS1"} }

\* the writes of a client that sends whole and broken lines
Texts == { Frame("INIT"), Frame("PING"), <<"x">>, <<SP>>, <<NL>> }

\* the writes of a client that has several chat turns in flight
Turns == { Frame("INIT") \o Frame("CHAT"), Frame("CHATS1") \o Frame("CANCEL") }

\* the writes of a client that sends good and bad lines, none of them a chat
Lines ==
    { Frame(h) : h \in {"INIT", "INITBAD", "V1INIT", "NOVER", "PING", "NOMETHOD"} }
      \cup { <<"x", NL>>, <<"7", NL>>, <<SP, NL>>, <<NL>> }

Engine ==
    [initialized |-> initialized, closed |-> closed, buffer |-> buffer,
     sessions |-> sessions, sessionCounter |-> sessionCounter,
     sessionContexts |-> sessionContexts, output |-> output, pending |-> pending,
     units |-> units, sendLog |-> sendLog, minted |-> minted, bridgeLog |-> bridgeLog]

Becomes(e) ==
    /\ initialized' = e.initialized
    /\ closed' = e.closed
    /\ buffer' = e.buffer
    /\ sessions' = e.sessions
    /\ sessionCounter' = e.sessionCounter
    /\ sessionContexts' = e.sessionContexts
    /\ output' = e.output
    /\ pending' = e.pending
    /\ units' = e.units
    /\ sendLog' = e.sendLog
    /\ minted' = e.minted
    /\ bridgeLog' = e.bridgeLog

Init ==
    /\ started = FALSE
    /\ closed = FALSE
    /\ initialized = FALSE
    /\ buffer = <<>>
    /\ sessions = <<>>
    /\ sessionCounter = 0
    /\ sessionContexts = <<>>
    /\ output = <<>>
    /\ pending = <<>>
    /\ wire = <<>>
    /\ writes = 0
    /\ consumed = <<>>
    /\ cuts = {}
    /\ ctxLog = <<>>
    /\ closeLog = <<>>
    /\ acpServer = Null
    /\ extLog = <<>>
    /\ units = <<>>
    /\ sendLog = <<>>
    /\ minted = <<>>
    /\ bridgeLog = <<>>

Start ==
    /\ ~started
    /\ started' = TRUE
    /\ UNCHANGED <<closed, initialized, buffer, sessions, sessionCounter, sessionContexts,
                   output, pending, wire, writes, consumed, cuts, ctxLog, closeLog, acpServer, extLog, units,
                   sendLog,
                   minted, bridgeLog>>

\* the text of a sequence of writes
RECURSIVE Concat(_)
Concat(ps) == IF ps = <<>> THEN <<>> ELSE Head(ps) \o Concat(Tail(ps))

\* the cancelInject calls a chunk leads to do not depend on what the calls do
NoThrow == [i \in 1..(2 * (MaxWrites + MaxChatWrites)) |-> [ret |-> FALSE]]

\* A "data" event.  The chunk is the rest of the write that the last chunk cut,
\* then k further writes of the client, cut at any token of the last of them.
\* The ends of the chunks are kept in cuts for the clients whose claims read them.
OnData(pieces, max, keep) ==
    \E k \in 0..(max - writes) :
      \E ps \in [1..k -> pieces] :
        LET text == wire \o Concat(ps)
            last == IF k = 0 THEN Len(wire) ELSE Len(ps[k])
        IN  \E n \in (Len(text) - last + 1)..Len(text) :
              LET chunk == SubSeq(text, 1, n)
                  c0 == CancelCalls(bridgeLog)
                  c1 == CancelCalls(onData(Engine, chunk, NoThrow).bridgeLog)
              IN  /\ started
                  /\ \E oc \in [(c0 + 1)..c1 -> CancelOutcomes] :
                         Becomes(onData(Engine, chunk, oc))
                  /\ wire' = SubSeq(text, n + 1, Len(text))
                  /\ writes' = writes + k
                  /\ consumed' = consumed \o chunk
                  /\ cuts' = IF keep THEN cuts \cup {Len(consumed) + n} ELSE cuts
                  /\ UNCHANGED <<started, ctxLog, closeLog, acpServer, extLog>>

\* what calls close(): the host, or the listeners that start() registered for
\* the "end" and the "error" event of the input
CloseCalls == {"close", "end", "error"}

\* A call of close().  The calls are kept in closeLog, with the number of
\* lines dispatched before each, for the clients whose claims read them.
Close(keep) ==
    \E via \in CloseCalls :
        /\ via # "close" => started
        /\ keep => Len(closeLog) < MaxCloses
        /\ Becomes(close(Engine))
        /\ closeLog' = IF keep THEN Append(closeLog, [via |-> via, after |-> Len(units)])
                                ELSE closeLog
        /\ UNCHANGED <<started, wire, writes, consumed, cuts, ctxLog, acpServer, extLog>>

\* the bridge streams a delta of a turn in flight
InjectDelta(max) ==
    \E u \in DOMAIN pending, type \in DeltaTypes :
        /\ pending[u].await = "inject"
        /\ Len(SelectSeq(bridgeLog, LAMBDA c : c.op = "onStream")) < max
        /\ LET streamMsg == [type |-> type, content |-> NumStr(pending[u].deltas + 1)]
               e1 == [Engine EXCEPT
                        !.pending[u].deltas = @ + 1,
                        !.bridgeLog = Append(@, [op |-> "onStream", unit |-> u,
                                                 msg |-> streamMsg])]
           IN  Becomes(onStream(e1, u, streamMsg))
        /\ UNCHANGED <<started, wire, writes, consumed, cuts, ctxLog, closeLog, acpServer, extLog>>

\* bridge.inject resolves and the suspended handler runs to its end
InjectResolve ==
    \E u \in DOMAIN pending, response \in Responses :
        /\ pending[u].await = "inject"
        /\ LET e1 == [Engine EXCEPT
                        !.bridgeLog = Append(@, [op |-> "resolve", unit |-> u,
                                                 response |-> response])]
               e2 == chatCompleted(e1, u, response)
           IN  Becomes([e2 EXCEPT !.pending = MapDelete(@, u)])
        /\ UNCHANGED <<started, wire, writes, consumed, cuts, ctxLog, closeLog, acpServer, extLog>>

\* bridge.inject throws or rejects and handleLine catches it
InjectReject ==
    \E u \in DOMAIN pending, err \in InjectThrows :
        /\ pending[u].await = "inject"
        /\ LET e1 == [Engine EXCEPT
                        !.bridgeLog = Append(@, [op |-> "reject", unit |-> u, err |-> err,
                                                 after |-> Len(units)])]
               e2 == catch(e1, u, pending[u].id, err)
           IN  Becomes([e2 EXCEPT !.pending = MapDelete(@, u)])
        /\ UNCHANGED <<started, wire, writes, consumed, cuts, ctxLog, closeLog, acpServer, extLog>>

\* handleLine catches what bridge.cancelInject threw
CancelCaught ==
    \E u \in DOMAIN pending :
        /\ pending[u].await = "catch"
        /\ LET e2 == catch(Engine, u, pending[u].id, pending[u].err)
           IN  Becomes([e2 EXCEPT !.pending = MapDelete(@, u)])
        /\ UNCHANGED <<started, wire, writes, consumed, cuts, ctxLog, closeLog, acpServer, extLog>>

Next ==
    \/ Start
    \/ OnData(Requests, MaxWrites, FALSE)
    \/ Close(FALSE)
    \/ InjectDelta(MaxDeltas)
    \/ InjectResolve
    \/ InjectReject
    \/ CancelCaught

Spec == Init /\ [][Next]_vars

\* Every call of the bridge completes: a pending bridge.inject resolves or
\* rejects, and the microtask that catches a throw of cancelInject runs.
SpecFair ==
    /\ Spec
    /\ WF_vars(InjectResolve \/ InjectReject)
    /\ WF_vars(CancelCaught)

NextChat ==
    \/ Start
    \/ OnData(Chats, MaxChatWrites, FALSE)
    \/ Close(FALSE)
    \/ InjectDelta(MaxTurnDeltas)
    \/ InjectResolve
    \/ InjectReject

SpecChat == Init /\ [][NextChat]_vars

NextText ==
    \/ Start
    \/ OnData(Texts, MaxWrites, TRUE)
    \/ Close(FALSE)

SpecText == Init /\ [][NextText]_vars

\* the writes of a client whose engine is closed more than once; the bridge
\* of this client answers without streaming
Sessions == { Frame(h) : h \in {"INIT", "UPDATE", "CHAT"} }

NextClose ==
    \/ Start
    \/ OnData(Sessions, MaxWrites, FALSE)
    \/ Close(TRUE)
    \/ InjectResolve
    \/ InjectReject

SpecClose == Init /\ [][NextClose]_vars

\* the values a host stores with updateEditorContext, by field
StoredValues ==
    [cursorPosition |-> {Cursor1, Cursor2}, files |-> {<<File1, File2>>},
     selection |-> {Sel1}, diagnostics |-> {<<Diag1, Diag2>>}]

\* the values that come inline with a chat request, by field
InlineValues ==
    [cursorPosition |-> {Cursor2}, files |-> {<<File2, File1>>, <<>>},
     selection |-> {Sel2}, diagnostics |-> {<<Diag2>>}]

\* the context objects with any of the four fields, each from its values
Contexts(values) ==
    { [f \in D |-> [cursorPosition |-> c, files |-> fs, selection |-> sel,
                    diagnostics |-> ds][f]] :
        c \in values.cursorPosition, fs \in values.files, sel \in values.selection,
        ds \in values.diagnostics, D \in SUBSET ContextFields }

\* the session ids of the host: an ordinary one and the empty string
ContextSessions == { <<"s1">>, EmptyString }

\* the params of a chat request, without and with inline context
ChatParams ==
    { [message |-> "hi"] } \cup
    { [message |-> "hi", context |-> c] : c \in Contexts(InlineValues) }

\* a host calls updateEditorContext(sessionId, params)
UpdateEditorContext ==
    \E S \in ContextSessions, U \in Contexts(StoredValues) :
        /\ Len(ctxLog) < MaxCalls
        /\ sessionContexts' =
               updateEditorContext(sessionContexts, S, [sessionId |-> S, context |-> U])
        /\ ctxLog' = Append(ctxLog, [op |-> "update", sessionId |-> S, context |-> U,
                                     before |-> sessionContexts,
                                     after |-> sessionContexts'])
        /\ UNCHANGED <<started, closed, initialized, buffer, sessions, sessionCounter,
                       output, pending, wire, writes, consumed, cuts, closeLog, acpServer, extLog, units,
                       sendLog, minted, bridgeLog>>

\* a host calls clearEditorContext(sessionId)
ClearEditorContext ==
    \E S \in ContextSessions :
        /\ Len(ctxLog) < MaxCalls
        /\ sessionContexts' = clearEditorContext(sessionContexts, S)
        /\ ctxLog' = Append(ctxLog, [op |-> "clear", sessionId |-> S,
                                     before |-> sessionContexts,
                                     after |-> sessionContexts'])
        /\ UNCHANGED <<started, closed, initialized, buffer, sessions, sessionCounter,
                       output, pending, wire, writes, consumed, cuts, closeLog, acpServer, extLog, units,
                       sendLog, minted, bridgeLog>>

\* a host calls formatEditorContext(params) or formatEditorContext(params, sessionId)
FormatEditorContext ==
    \E params \in ChatParams, S \in ContextSessions \cup {NoSession} :
        /\ Len(ctxLog) < MaxCalls
        /\ ctxLog' = Append(ctxLog, [op |-> "format", sessionId |-> S, params |-> params,
                                     before |-> sessionContexts,
                                     result |-> formatEditorContext(sessionContexts,
                                                                    params, S)])
        /\ UNCHANGED <<started, closed, initialized, buffer, sessions, sessionCounter,
                       sessionContexts, output, pending, wire, writes, consumed, cuts,
                       closeLog, acpServer, extLog, units, sendLog, minted, bridgeLog>>

NextContext ==
    \/ UpdateEditorContext
    \/ ClearEditorContext
    \/ FormatEditorContext

SpecContext == Init /\ [][NextContext]_vars

NextTurns ==
    \/ Start
    \/ OnData(Turns, MaxTurns, FALSE)
    \/ Close(FALSE)
    \/ InjectDelta(MaxDeltas)
    \/ InjectResolve
    \/ InjectReject
    \/ CancelCaught

SpecTurns == Init /\ [][NextTurns]_vars

NextLines ==
    \/ Start
    \/ OnData(Lines, MaxWrites, FALSE)
    \/ Close(FALSE)

SpecLines == Init /\ [][NextLines]_vars

-----------------------------------------------------------------------------
(* Reading the history *)

Units == 1..Len(units)

Parsed(u) == parseNdjsonLine(units[u])

\* unit u is a decoded frame with jsonrpc "2.0"
IsRequest(u) == Parsed(u).kind = "object" /\ Member(Parsed(u), "jsonrpc") = "2.0"

MethodOf(u) == Member(Parsed(u), "method")
IdOf(u) == Member(Parsed(u), "id")

\* the send() and sendNotification() calls of unit u, in order
Calls(u) == SelectSeq(sendLog, LAMBDA c : c.unit = u)

\* unit u is an initialize request that passes the schema
InitializeSucceeds(u) ==
    /\ IsRequest(u)
    /\ MethodOf(u) = "initialize"
    /\ AcpInitializeRequestSchema(Parsed(u).obj)

\* the methods that require the handshake
Gated == {"chat/message", "chat/cancel", "context/update"}

\* unit u is a frame of a gated method that arrived before the handshake
BeforeHandshake(u) ==
    /\ IsRequest(u)
    /\ MethodOf(u) \in Gated
    /\ \A v \in 1..(u - 1) : ~InitializeSucceeds(v)

\* the frame as it is on the output stream
ErrorFrame(id, code, message) == serializeNdjson(createError(id, code, message))

-----------------------------------------------------------------------------
(* Claims *)

\* C1: a chat/message, chat/cancel or context/update frame with jsonrpc "2.0"
\* that arrives while no initialize request has succeeded gets exactly one
\* answer, the error -32600 "Not initialized" with the id of the frame, whether
\* its params are valid or not; the answer is on the output stream unless the
\* engine was closed.
C1_NotInitialized ==
    \A u \in Units :
        BeforeHandshake(u) =>
            /\ Len(Calls(u)) = 1
            /\ Calls(u)[1].frame =
                   ErrorFrame(IdOf(u), RPC_INVALID_REQUEST, <<"Not initialized">>)
            /\ ~closed => Calls(u)[1].written

\* C1 witness: a chat/cancel with valid params and a chat/message without
\* params were both refused before the handshake, on the output stream
C1_Witness ==
    /\ \E u \in Units :
          /\ BeforeHandshake(u)
          /\ MethodOf(u) = "chat/cancel"
          /\ AcpChatCancelRequestSchema(Parsed(u).obj)
          /\ Calls(u) # <<>> /\ Calls(u)[1].written
    /\ \E u \in Units :
          /\ BeforeHandshake(u)
          /\ MethodOf(u) = "chat/message"
          /\ ~AcpChatMessageRequestSchema(Parsed(u).obj)
          /\ Calls(u) # <<>> /\ Calls(u)[1].written

\* the calls the bridge got and the callbacks it made for unit u, in order
BridgeOps(u, op) == SelectSeq(bridgeLog, LAMBDA c : c.unit = u /\ c.op = op)

\* unit u is a chat/message that reached the bridge
Accepted(u) == BridgeOps(u, "inject") # <<>>

\* the session id of the accepted chat/message u: the one of the request, or
\* acp-<n> where u is the n-th accepted chat/message without a sessionId
TurnSession(u) ==
    IF "sessionId" \in DOMAIN Parsed(u).obj.params
      THEN Parsed(u).obj.params.sessionId
      ELSE <<"acp", NumStr(Cardinality({ v \in 1..u :
                  Accepted(v) /\ "sessionId" \notin DOMAIN Parsed(v).obj.params }))>>

Notification(method, params) == [jsonrpc |-> "2.0", method |-> method, params |-> params]

\* the chat/streamChunk notifications owed for the deltas of unit u so far
ChunksOwed(u) ==
    LET text == SelectSeq(BridgeOps(u, "onStream"), LAMBDA c : c.msg.type = "text")
    IN  [i \in 1..Len(text) |->
            Notification("chat/streamChunk",
                         [sessionId |-> TurnSession(u), delta |-> text[i].msg.content])]

\* the two frames that end the turn u once the bridge has resolved
EndOwed(u) ==
    LET done == BridgeOps(u, "resolve")
    IN  IF done = <<>> THEN <<>>
        ELSE << Notification("chat/streamEnd", [sessionId |-> TurnSession(u)]),
                serializeNdjson(createResponse(IdOf(u),
                    [sessionId |-> TurnSession(u), content |-> done[1].response])) >>

Frames(u) == [i \in 1..Len(Calls(u)) |-> Calls(u)[i].frame]

\* C2: as long as the bridge has not rejected, what an accepted chat/message has
\* sent is one chat/streamChunk per "text" delta of the bridge, in the order
\* of the deltas and none for other deltas, followed, once the bridge has
\* resolved, by chat/streamEnd and then the response with the id of the
\* request, the session id of the turn and the text the bridge returned.
C2_StreamOrder ==
    \A u \in Units :
        (Accepted(u) /\ BridgeOps(u, "reject") = <<>>) =>
            /\ Frames(u) = ChunksOwed(u) \o EndOwed(u)
            /\ ~closed => \A i \in 1..Len(Calls(u)) : Calls(u)[i].written

\* C2 witness: a turn with two text deltas has resolved and all four frames
\* are on the output stream
C2_Witness ==
    \E u \in Units :
        /\ Accepted(u)
        /\ BridgeOps(u, "resolve") # <<>>
        /\ Len(ChunksOwed(u)) = 2
        /\ Len(Calls(u)) = 4
        /\ \A i \in 1..4 : Calls(u)[i].written

\* the frames of the send calls that were not written, with their units
Suppressed == SelectSeq(sendLog, LAMBDA c : ~c.written)

\* C3: once the engine is closed no step writes to the output stream, whether
\* the step handles frames that arrive after close() or ends or continues a
\* chat turn that was in flight when close() ran.
C3_SilentAfterClose == [][closed => output' = output]_vars

\* C3 witness: the engine is closed and has suppressed a chat/streamChunk and
\* the chat/streamEnd of a turn that was in flight, and the answer to a frame
\* that was dispatched after the turn ended
C3_Witness ==
    /\ closed
    /\ \E i, j, k \in 1..Len(Suppressed) :
          /\ i < j /\ j < k
          /\ "method" \in DOMAIN Suppressed[i].frame
          /\ Suppressed[i].frame.method = "chat/streamChunk"
          /\ "method" \in DOMAIN Suppressed[j].frame
          /\ Suppressed[j].frame.method = "chat/streamEnd"
          /\ Suppressed[j].unit = Suppressed[i].unit
          /\ Suppressed[k].unit > Suppressed[j].unit
          /\ Len(Calls(Suppressed[j].unit)) = 3

\* C4: a client session id that is bound to a backend id stays bound to that
\* backend id in every step that leaves it bound.
C4_BindingStable ==
    [][\A k \in DOMAIN sessions :
           k \in DOMAIN sessions' => sessions'[k] = sessions[k]]_vars

\* the number n of a minted id acp-<n>
MintNumber(id) == CHOOSE n \in 0..9 : NumStr(n) = id[2]

\* C5: the ids minted for chat/message requests without a sessionId are
\* acp-<n> with n strictly increasing in minting order, so that no id is minted
\* twice, whatever became of the turns and whether or not the engine is closed.
C5_MintedIncreasing ==
    /\ \A i \in 1..Len(minted) : minted[i][1] = "acp" /\ Len(minted[i]) = 2
    /\ \A i, j \in 1..Len(minted) :
          i < j => MintNumber(minted[i]) < MintNumber(minted[j])

\* C5 witness: two ids were minted, the first for a turn that failed and the
\* second after close() had dropped the first from the session mapping
C5_Witness ==
    /\ Len(minted) = 2
    /\ closed
    /\ DOMAIN sessions = {minted[2]}
    /\ \E c \in 1..Len(bridgeLog) : bridgeLog[c].op = "reject"

\* the result and error frames among the calls of unit u
IsAnswer(c) == "result" \in DOMAIN c.frame \/ "error" \in DOMAIN c.frame
Answers(u) == SelectSeq(Calls(u), IsAnswer)

\* the number of newlines in a text
Newlines(text) == Len(SelectSeq(text, LAMBDA c : c = NL))

\* the bridge call of unit u threw or rejected, and handleLine has caught it
CancelThrew(u) ==
    /\ BridgeOps(u, "cancelInject") # <<>>
    /\ "throw" \in DOMAIN BridgeOps(u, "cancelInject")[1].outcome
    /\ u \notin DOMAIN pending
InjectRejected(u) == BridgeOps(u, "reject") # <<>>

\* what the bridge threw in unit u, and the number of units dispatched by then
FailureOf(u) ==
    IF InjectRejected(u) THEN BridgeOps(u, "reject")[1].err
    ELSE BridgeOps(u, "cancelInject")[1].outcome.throw
UnitsBefore(u) == IF InjectRejected(u) THEN BridgeOps(u, "reject")[1].after ELSE u

\* unit u has sent exactly one answer, with the id of its frame, last of all
\* it sent, and on the output stream unless the engine is closed
AnsweredOnce(u) ==
    /\ Len(Answers(u)) = 1
    /\ IsAnswer(Calls(u)[Len(Calls(u))])
    /\ IF IdOf(u) = Undefined THEN "id" \notin DOMAIN Answers(u)[1].frame
       ELSE "id" \in DOMAIN Answers(u)[1].frame /\ Answers(u)[1].frame.id = IdOf(u)
    /\ ~closed => Answers(u)[1].written

\* C6: when bridge.inject rejects or bridge.cancelInject throws, the unit sends
\* one answer, the error -32603 with the message of the exception and the id
\* of the request; every line that arrives afterwards is dispatched, and has
\* one answer of its own as soon as it does not wait for the bridge.
C6_FailureContained ==
    \A u \in Units :
        (InjectRejected(u) \/ CancelThrew(u)) =>
            /\ AnsweredOnce(u)
            /\ Answers(u)[1].frame =
                   ErrorFrame(IdOf(u), RPC_INTERNAL_ERROR, ErrMsg(FailureOf(u)))
            /\ Len(units) = Newlines(consumed)
            /\ \A v \in Units :
                   (v > UnitsBefore(u) /\ v \notin DOMAIN pending) => AnsweredOnce(v)

\* C6 witness: a chat turn was rejected, its error is on the output stream, and
\* a chat/cancel that arrived afterwards made the bridge throw and was answered
\* with the error that carries the text thrown
C6_Witness ==
    \E u, v \in Units :
        /\ InjectRejected(u)
        /\ Answers(u) # <<>> /\ Answers(u)[1].written
        /\ v > UnitsBefore(u)
        /\ CancelThrew(v)
        /\ Answers(v) # <<>> /\ Answers(v)[1].written
        /\ Answers(v)[1].frame.error.message = <<"oops">>

\* the answers of unit u that are on the output stream
WrittenAnswers(u) == SelectSeq(Answers(u), LAMBDA c : c.written)

\* C7: provided every bridge call completes, each line that is dispatched has
\* exactly one answer (a frame with result or error) on the output stream
\* sooner or later, unless the engine is closed first; no line ever has two.
C7_OneAnswerPerLine ==
    /\ [](\A u \in Units : Len(WrittenAnswers(u)) <= 1)
    /\ \A u \in 1..MaxWrites :
          [](u \in Units => <>(closed \/ Len(WrittenAnswers(u)) = 1))

\* C7 witness: the engine is open, a chat turn that resolved and a chat turn
\* that was rejected have one answer each on the output stream
C7_Witness ==
    /\ ~closed
    /\ \E u, v \in Units :
          /\ BridgeOps(u, "resolve") # <<>>
          /\ Len(WrittenAnswers(u)) = 1
          /\ InjectRejected(v)
          /\ Len(WrittenAnswers(v)) = 1

\* the newline-terminated lines of a text that are not blank, in order
CompleteLines(text) ==
    LET lines == split(text)
    IN  SelectSeq(SubSeq(lines, 1, Len(lines) - 1), LAMBDA l : trim(l) # <<>>)

\* the text after the last newline of a text
Unterminated(text) == split(text)[Len(split(text))]

\* C8: however the input stream was cut into chunks, the lines dispatched so
\* far are the newline-terminated non-blank lines of the text that has arrived,
\* each once and in order; the text after the last newline is held in the
\* buffer and nothing was sent for it: every send belongs to a dispatched line
\* and, for a client whose frames are answered at once, each dispatched line
\* has exactly one.
C8_ChunkingIndependent ==
    /\ units = CompleteLines(consumed)
    /\ buffer = Unterminated(consumed)
    /\ Len(sendLog) = Len(units)
    /\ \A i \in 1..Len(sendLog) : sendLog[i].unit = i

\* C8 witness: an initialize frame arrived in two chunks, cut after its first
\* token; it was dispatched once and its one response is on the output stream,
\* and the head of a second frame, which came with the second chunk, is
\* waiting in the buffer for the rest of its line
C8_Witness ==
    /\ consumed = Frame("INIT") \o <<"PING">>
    /\ cuts = {1, 4}
    /\ units = << <<"INIT", CL>> >>
    /\ Len(output) = 1
    /\ buffer = <<"PING">>

\* the chunk of the data event that a step is; empty for the other steps
Arrived == SubSeq(consumed', Len(consumed) + 1, Len(consumed'))

\* the lines that the chunk of a step completes
Completed == CompleteLines(buffer \o Arrived)

\* the id member of the frame on a line, undefined when there is none
LineId(line) == Member(parseNdjsonLine(line), "id")

\* the k-th send call of a step
Sent(k) == sendLog'[Len(sendLog) + k]

\* C9: a data event whose chunk completes two or more lines dispatches all of
\* them in the order of the chunk; for a client whose frames are answered at
\* once, the event sends exactly one frame per line, in the order of the
\* lines, each a response or an error with the id of its own line, and these
\* are what the event writes to the output stream (nothing once closed).
C9_TwoFramesOneChunk ==
    [][Len(Completed) >= 2 =>
          /\ units' = units \o Completed
          /\ Len(sendLog') = Len(sendLog) + Len(Completed)
          /\ \A k \in 1..Len(Completed) :
                /\ Sent(k).unit = Len(units) + k
                /\ IsAnswer(Sent(k))
                /\ IF LineId(Completed[k]) = Undefined
                     THEN "id" \notin DOMAIN Sent(k).frame
                     ELSE /\ "id" \in DOMAIN Sent(k).frame
                          /\ Sent(k).frame.id = LineId(Completed[k])
                /\ Sent(k).written = ~closed
          /\ output' = output \o
                IF closed THEN <<>>
                ELSE [k \in 1..Len(Completed) |-> Sent(k).frame]
      ]_vars

\* C9 witness: one chunk brought an initialize frame and a ping frame, nothing
\* else arrived, and the output stream holds the result for id 1 followed by
\* the error -32601 for id 4
C9_Witness ==
    /\ consumed = Frame("INIT") \o Frame("PING")
    /\ cuts = {6}
    /\ Len(units) = 2
    /\ Len(output) = 2
    /\ "result" \in DOMAIN output[1] /\ output[1].id = "1"
    /\ "error" \in DOMAIN output[2] /\ output[2].id = "4"
    /\ output[2].error.code = RPC_METHOD_NOT_FOUND

\* the line is a chat/cancel frame with valid params for a session id that the
\* mapping does not hold
CancelOfUnknown(line) ==
    LET msg == parseNdjsonLine(line)
    IN  /\ msg.kind = "object"
        /\ Member(msg, "jsonrpc") = "2.0"
        /\ Member(msg, "method") = "chat/cancel"
        /\ AcpChatCancelRequestSchema(msg.obj)
        /\ msg.obj.params.sessionId \notin DOMAIN sessions

\* C10: when the engine is initialized and a data event completes one or
\* more lines that are all chat/cancel frames for session ids the mapping does
\* not hold, each line is answered {cancelled: false} with the id of its
\* frame (on the output stream unless the engine is closed),
\* bridge.cancelInject is not called, and the mapping is unchanged; so the
\* same holds for a repetition of the cancel, in the same or in a later chunk.
C10_CancelUnknown ==
    [][(/\ initialized
        /\ Completed # <<>>
        /\ \A k \in 1..Len(Completed) : CancelOfUnknown(Completed[k]))
       =>
          /\ sessions' = sessions
          /\ bridgeLog' = bridgeLog
          /\ Len(sendLog') = Len(sendLog) + Len(Completed)
          /\ \A k \in 1..Len(Completed) :
                /\ Sent(k).unit = Len(units) + k
                /\ Sent(k).frame = serializeNdjson(createResponse(
                       LineId(Completed[k]), [cancelled |-> FALSE]))
                /\ Sent(k).written = ~closed
      ]_vars

\* C10 witness: after the handshake two chat/cancel frames for the session
\* acp-1 were answered {cancelled: false} on the output stream, the bridge was
\* never called, and the mapping is and always was empty
C10_Witness ==
    /\ ~closed
    /\ sessions = <<>>
    /\ bridgeLog = <<>>
    /\ Len(units) = 3
    /\ InitializeSucceeds(1)
    /\ \A u \in {2, 3} :
          /\ MethodOf(u) = "chat/cancel"
          /\ Parsed(u).obj.params.sessionId = <<"acp", "1">>
          /\ Len(Calls(u)) = 1
          /\ Calls(u)[1].written
          /\ Calls(u)[1].frame.result = [cancelled |-> FALSE]

\* the line is a chat/cancel frame with valid params for a session id that the
\* mapping holds
CancelOfKnown(line) ==
    LET msg == parseNdjsonLine(line)
    IN  /\ msg.kind = "object"
        /\ Member(msg, "jsonrpc") = "2.0"
        /\ Member(msg, "method") = "chat/cancel"
        /\ AcpChatCancelRequestSchema(msg.obj)
        /\ msg.obj.params.sessionId \in DOMAIN sessions

\* the session id of the frame on a line
LineSession(line) == parseNdjsonLine(line).obj.params.sessionId

\* C11: when the engine is initialized and a data event completes one line, a
\* chat/cancel frame for a session id the mapping holds, the event calls
\* bridge.cancelInject exactly once, with the backend id the mapping binds to
\* that session id, and calls nothing else of the bridge; when the call returns
\* the boolean b the event sends one frame, the response {cancelled: b} with
\* the id of the frame (on the output stream unless the engine is closed); the
\* mapping is unchanged.
C11_CancelKnown ==
    [][(/\ initialized
        /\ Len(Completed) = 1
        /\ CancelOfKnown(Completed[1]))
       =>
          /\ sessions' = sessions
          /\ Len(bridgeLog') = Len(bridgeLog) + 1
          /\ LET call == bridgeLog'[Len(bridgeLog')]
             IN  /\ SubSeq(bridgeLog', 1, Len(bridgeLog)) = bridgeLog
                 /\ call.op = "cancelInject"
                 /\ call.unit = Len(units) + 1
                 /\ call.session = sessions[LineSession(Completed[1])]
                 /\ "ret" \in DOMAIN call.outcome =>
                       /\ Len(sendLog') = Len(sendLog) + 1
                       /\ Sent(1).unit = Len(units) + 1
                       /\ Sent(1).frame = serializeNdjson(createResponse(
                              LineId(Completed[1]), [cancelled |-> call.outcome.ret]))
                       /\ Sent(1).written = ~closed
      ]_vars

\* C11 witness: the session acp-1 was bound by a context/update to the backend
\* acp-acp-1; a chat/cancel for it made the bridge cancel that backend session,
\* the bridge returned true and {cancelled: true} is on the output stream
C11_Witness ==
    \E u \in Units :
        /\ MethodOf(u) = "chat/cancel"
        /\ Len(BridgeOps(u, "cancelInject")) = 1
        /\ BridgeOps(u, "cancelInject")[1].session = <<"acp", "acp", "1">>
        /\ BridgeOps(u, "cancelInject")[1].outcome = [ret |-> TRUE]
        /\ Len(Calls(u)) = 1
        /\ Calls(u)[1].written
        /\ Calls(u)[1].frame.result = [cancelled |-> TRUE]

\* unit u is an initialize request whose params fail the schema
InitializeFails(u) ==
    /\ IsRequest(u)
    /\ MethodOf(u) = "initialize"
    /\ ~AcpInitializeRequestSchema(Parsed(u).obj)

\* C12: the initialized flag is true exactly when some line dispatched so far
\* was an initialize request (jsonrpc "2.0") that passes the schema: it is
\* false at construction, no other frame sets it, and neither close() nor any
\* later frame resets it.  An initialize request whose params fail the schema
\* is answered with the one error -32602 "Invalid initialize params" with its
\* id (on the output stream unless the engine is closed).
C12_InitializedFlag ==
    /\ initialized <=> \E u \in Units : InitializeSucceeds(u)
    /\ \A u \in Units :
          InitializeFails(u) =>
              /\ Len(Calls(u)) = 1
              /\ Calls(u)[1].frame =
                     ErrorFrame(IdOf(u), RPC_INVALID_PARAMS, <<"Invalid initialize params">>)
              /\ ~closed => Calls(u)[1].written

\* C12 witness: an initialize with invalid params got -32602 on the output
\* stream, then a valid one set the flag, then the engine was closed and
\* handled another invalid initialize, and the flag is still set
C12_Witness ==
    /\ initialized
    /\ closed
    /\ Len(units) = 3
    /\ InitializeFails(1) /\ Calls(1)[1].written
    /\ InitializeSucceeds(2)
    /\ InitializeFails(3) /\ ~Calls(3)[1].written

\* unit u decoded to a value whose jsonrpc member is not "2.0"
WrongVersion(u) == Parsed(u) # Null /\ Member(Parsed(u), "jsonrpc") # "2.0"

\* the same of a line that has not been dispatched yet
WrongVersionLine(line) ==
    parseNdjsonLine(line) # Null /\ Member(parseNdjsonLine(line), "jsonrpc") # "2.0"

\* C13: a line that decodes to a value whose jsonrpc member is not "2.0"
\* (another version, no such member, or not an object) is answered with the
\* one error -32600 "Invalid JSON-RPC version" with the id of the frame, or
\* none when it has none, before and after the handshake (on the output stream
\* unless the engine is closed).  Its method is not handled: the unit calls
\* nothing of the bridge, and a data event that completes only such lines
\* leaves the flag, the mapping, the counter and the Context Store as they are.
C13_InvalidVersion ==
    /\ [](\A u \in Units :
            WrongVersion(u) =>
                /\ Len(Calls(u)) = 1
                /\ Calls(u)[1].frame =
                       ErrorFrame(IdOf(u), RPC_INVALID_REQUEST, <<"Invalid JSON-RPC version">>)
                /\ ~closed => Calls(u)[1].written
                /\ \A i \in 1..Len(bridgeLog) : bridgeLog[i].unit # u)
    /\ [][(/\ Completed # <<>>
           /\ \A k \in 1..Len(Completed) : WrongVersionLine(Completed[k]))
          => UNCHANGED <<initialized, sessions, sessionCounter, sessionContexts,
                         bridgeLog, pending>>]_vars

\* C13 witness: before the handshake an initialize of version "1.0" was
\* refused with id 5 and the flag stayed false; after the handshake a
\* chat/message without jsonrpc and without id was refused with no id
C13_Witness ==
    /\ Len(units) = 3
    /\ WrongVersion(1) /\ MethodOf(1) = "initialize" /\ Calls(1)[1].frame.id = "5"
    /\ InitializeSucceeds(2)
    /\ WrongVersion(3) /\ MethodOf(3) = "chat/message"
    /\ "id" \notin DOMAIN Calls(3)[1].frame
    /\ Calls(3)[1].written

\* C14: a non-blank line that fails to decode is answered with the one error
\* -32700 "Parse error" without an id (on the output stream unless the engine
\* is closed), and the engine goes on: the lines dispatched are all the
\* non-blank complete lines received, and each has sent its frame.
C14_ParseError ==
    /\ \A u \in Units :
          Parsed(u) = Null =>
              /\ Len(Calls(u)) = 1
              /\ Calls(u)[1].frame =
                     ErrorFrame(Undefined, RPC_PARSE_ERROR, <<"Parse error">>)
              /\ "id" \notin DOMAIN Calls(u)[1].frame
              /\ ~closed => Calls(u)[1].written
    /\ units = CompleteLines(consumed)
    /\ \A u \in Units : Calls(u) # <<>>

\* C14 witness: the first line was not JSON and got -32700 on the output
\* stream; the initialize that followed it succeeded and the unknown method
\* after that got its own error
C14_Witness ==
    /\ Len(units) = 3
    /\ Parsed(1) = Null
    /\ Calls(1)[1].written /\ Calls(1)[1].frame.error.code = RPC_PARSE_ERROR
    /\ InitializeSucceeds(2) /\ initialized
    /\ "result" \in DOMAIN Calls(2)[1].frame
    /\ IsRequest(3) /\ MethodOf(3) = "ping"
    /\ Calls(3)[1].written /\ Calls(3)[1].frame.error.code = RPC_METHOD_NOT_FOUND

Methods == {"initialize", "chat/message", "chat/cancel", "context/update"}

\* C15: a frame with jsonrpc "2.0" whose method is none of the four, or is
\* missing, is answered with the one error -32601 "Unknown method: <method>"
\* with the id of the frame, before and after the handshake (on the output
\* stream unless the engine is closed).
C15_MethodNotFound ==
    \A u \in Units :
        (IsRequest(u) /\ MethodOf(u) \notin Methods) =>
            /\ Len(Calls(u)) = 1
            /\ Calls(u)[1].frame =
                   ErrorFrame(IdOf(u), RPC_METHOD_NOT_FOUND,
                              <<"Unknown method: ", MethodOf(u)>>)
            /\ ~closed => Calls(u)[1].written

\* C15 witness: "ping" was refused before the handshake and a frame without a
\* method after it, both on the output stream
C15_Witness ==
    /\ Len(units) = 3
    /\ IsRequest(1) /\ MethodOf(1) = "ping"
    /\ Calls(1)[1].written /\ Calls(1)[1].frame.error.code = RPC_METHOD_NOT_FOUND
    /\ InitializeSucceeds(2)
    /\ IsRequest(3) /\ MethodOf(3) = Undefined
    /\ Calls(3)[1].written
    /\ Calls(3)[1].frame.error.message = <<"Unknown method: ", "undefined">>

\* the frame carries the id, or no id member when the id is undefined
CarriesId(frame, id) ==
    IF id = Undefined THEN "id" \notin DOMAIN frame
    ELSE "id" \in DOMAIN frame /\ frame.id = id

\* the place in sendLog of the answer of unit u, 0 when it has not answered
AnswerAt(u) ==
    IF \E i \in 1..Len(sendLog) : sendLog[i].unit = u /\ IsAnswer(sendLog[i])
      THEN CHOOSE i \in 1..Len(sendLog) : sendLog[i].unit = u /\ IsAnswer(sendLog[i])
      ELSE 0

\* C16: every frame with a result or an error that a unit sends carries the
\* id of the frame that unit decoded, as it was (string, number, or no id
\* member when the frame has none), whatever the order in which the turns in
\* flight complete; every other frame sent is a chat/streamChunk or a
\* chat/streamEnd notification and has no id member.
C16_Correlation ==
    \A i \in 1..Len(sendLog) :
        LET c == sendLog[i]
        IN  IF IsAnswer(c)
              THEN CarriesId(c.frame, IdOf(c.unit))
              ELSE /\ "id" \notin DOMAIN c.frame
                   /\ c.frame.method \in {"chat/streamChunk", "chat/streamEnd"}

\* C16 witness: two turns were in flight, id 2 (a number) and id "a" (a
\* string); the later one completed first; both results are on the output
\* stream after a chat/streamChunk, and a chat/cancel that had no id was
\* answered without one
C16_Witness ==
    /\ ~closed
    /\ \E u, v \in Units :
          /\ u < v
          /\ Accepted(u) /\ IdOf(u) = "2" /\ BridgeOps(u, "resolve") # <<>>
          /\ Accepted(v) /\ IdOf(v) = "a" /\ BridgeOps(v, "resolve") # <<>>
          /\ AnswerAt(v) < AnswerAt(u)
          /\ sendLog[AnswerAt(u)].frame.id = "2"
          /\ sendLog[AnswerAt(v)].frame.id = "a"
    /\ \E i \in 1..Len(sendLog) :
          ~IsAnswer(sendLog[i]) /\ sendLog[i].frame.method = "chat/streamChunk"
    /\ \E w \in Units :
          /\ MethodOf(w) = "chat/cancel"
          /\ AnswerAt(w) # 0
          /\ "result" \in DOMAIN sendLog[AnswerAt(w)].frame
          /\ "id" \notin DOMAIN sendLog[AnswerAt(w)].frame

\* the line is a context/update frame with valid params
ValidUpdate(line) ==
    LET msg == parseNdjsonLine(line)
    IN  /\ msg.kind = "object"
        /\ Member(msg, "jsonrpc") = "2.0"
        /\ Member(msg, "method") = "context/update"
        /\ AcpContextUpdateRequestSchema(msg.obj)

\* the context of the frame on a line
LineContext(line) == parseNdjsonLine(line).obj.params.context

\* record new is record old with the fields of ctx written over it
MergedInto(new, old, ctx) ==
    \A f \in ContextFields :
        IF f \in DOMAIN ctx THEN f \in DOMAIN new /\ new[f] = ctx[f]
        ELSE IF f \in DOMAIN old THEN f \in DOMAIN new /\ new[f] = old[f]
        ELSE f \notin DOMAIN new

\* C17: when the engine is initialized and a data event completes one line, a
\* context/update frame with valid params for the session S, then afterwards
\* the mapping binds S (to the backend id it had, or to acp-S when it had
\* none) and nothing else changed in it, the Context Store record of S is the
\* old one with the fields of the update written over it, and the one frame
\* sent is {ok: true} with the id of the frame.  While the engine is open every
\* Context Store record belongs to a session of the mapping, and the step in
\* which the engine closes empties the mapping and removes the records of all
\* its sessions, so none is left.
C17_UpdateRegisters ==
    /\ [][(initialized /\ Len(Completed) = 1 /\ ValidUpdate(Completed[1])) =>
            LET S == LineSession(Completed[1])
                old == IF S \in DOMAIN sessionContexts THEN sessionContexts[S] ELSE <<>>
            IN  /\ DOMAIN sessions' = DOMAIN sessions \cup {S}
                /\ \A k \in DOMAIN sessions : sessions'[k] = sessions[k]
                /\ S \notin DOMAIN sessions => sessions'[S] = defaultSession \o S
                /\ DOMAIN sessionContexts' = DOMAIN sessionContexts \cup {S}
                /\ \A k \in DOMAIN sessionContexts \ {S} :
                      sessionContexts'[k] = sessionContexts[k]
                /\ MergedInto(sessionContexts'[S], old, LineContext(Completed[1]))
                /\ Len(sendLog') = Len(sendLog) + 1
                /\ Sent(1).frame = serializeNdjson(createResponse(
                       LineId(Completed[1]), [ok |-> TRUE]))
                /\ Sent(1).written = ~closed
         ]_vars
    /\ [](~closed => DOMAIN sessionContexts \subseteq DOMAIN sessions)
    /\ [][(~closed /\ closed') => (sessions' = <<>> /\ sessionContexts' = <<>>)]_vars

\* C17 witness: after the handshake a context/update for acp-1 was answered
\* {ok: true} on the output stream, no chat/message ever reached the bridge,
\* the engine was closed after that and the Context Store holds nothing
C17_Witness ==
    /\ closed
    /\ bridgeLog = <<>>
    /\ sessionContexts = <<>>
    /\ Len(units) = 2
    /\ InitializeSucceeds(1)
    /\ MethodOf(2) = "context/update"
    /\ Calls(2)[1].written
    /\ Calls(2)[1].frame.result = [ok |-> TRUE]

\* the step is a call of close()
CloseCalled == Len(closeLog') = Len(closeLog) + 1

\* C18: a call of close() on an engine that is closed changes nothing: the
\* closed flag stays set, and the mapping, the Context Store (also the records
\* stored since the first close), the handshake flag, the counter, the buffer,
\* the output stream and the units in flight are what they were.
C18_CloseIdempotent ==
    [][(closed /\ CloseCalled) =>
          /\ closed'
          /\ UNCHANGED <<sessions, sessionContexts, initialized, sessionCounter, buffer,
                         output, pending, units, sendLog, minted, bridgeLog>>
      ]_vars

\* C18 witness: close() was called twice; between the two calls a
\* context/update registered acp-1 and stored its record, and after the second
\* call the record and the binding are still there
C18_Witness ==
    /\ closed
    /\ Len(closeLog) = 2
    /\ closeLog[1].after < Len(units)
    /\ closeLog[2].after = Len(units)
    /\ MethodOf(Len(units)) = "context/update"
    /\ Calls(Len(units))[1].frame = serializeNdjson(createResponse("3", [ok |-> TRUE]))
    /\ sessions = (<<"acp", "1">> :> <<"acp", "acp", "1">>)
    /\ sessionContexts = (<<"acp", "1">> :> [cursorPosition |-> Cursor1])

\* C19: the closed flag is set exactly when close() has been called, by the
\* host or by the listener of the "end" or the "error" event that start()
\* registered, and no step of any operation resets it.
C19_ClosedTerminal ==
    /\ [](closed <=> closeLog # <<>>)
    /\ [][closed => closed']_vars

\* C19 witness: the input ended after start() and the engine closed; since
\* then it has handled a further line, a turn has completed with its frames
\* suppressed, and the "error" event has called close() again; the engine is
\* closed
C19_Witness ==
    /\ started
    /\ closed
    /\ Len(closeLog) = 2
    /\ closeLog[1].via = "end"
    /\ closeLog[2].via = "error"
    /\ closeLog[1].after < Len(units)
    /\ \E u \in Units : BridgeOps(u, "resolve") # <<>> /\ ~Calls(u)[1].written

\* the data event of a step completes lines, and all of them are blank
OnlyBlankLines == Len(split(buffer \o Arrived)) > 1 /\ Completed = <<>>

\* C20: a data event that completes only lines that are empty or hold only
\* blanks sends no frame, writes nothing, dispatches nothing, calls nothing of
\* the bridge and leaves the flags, the mapping, the counter and the Context
\* Store as they are; it only takes the lines out of the buffer.  Blank lines
\* among other lines are skipped too: the lines dispatched are the non-blank
\* complete lines received, and every frame sent belongs to one of them, one
\* frame for each.
C20_BlankSkipped ==
    /\ [][OnlyBlankLines =>
            /\ UNCHANGED <<output, sendLog, units, bridgeLog, pending, initialized,
                           closed, sessions, sessionCounter, sessionContexts, minted>>
            /\ buffer' = Unterminated(buffer \o Arrived)
         ]_vars
    /\ [](units = CompleteLines(consumed))
    /\ [](\A u \in Units : trim(units[u]) # <<>>)
    /\ [](Len(sendLog) = Len(units) /\ \A i \in 1..Len(sendLog) : sendLog[i].unit = i)

\* C20 witness: a line of one blank and an empty line arrived, then an
\* initialize; the only line dispatched is the initialize and its result is
\* the only frame on the output stream
C20_Witness ==
    /\ consumed = <<SP, NL, NL>> \o Frame("INIT")
    /\ units = << <<"INIT", CL>> >>
    /\ Len(output) = 1
    /\ "result" \in DOMAIN output[1]
    /\ output[1].id = "1"

\* the calls of updateEditorContext among the calls of the host
UpdateCalls == { i \in 1..Len(ctxLog) : ctxLog[i].op = "update" }

\* the Context Store after the i-th call of the host
StoreAfter(i) == IF i = Len(ctxLog) THEN sessionContexts ELSE ctxLog[i + 1].before

\* getEditorContext(S) on a store: the record, or the empty record for undefined
Get(store, S) == IF S \in DOMAIN store THEN store[S] ELSE <<>>

\* C21: after each updateEditorContext(S, U), whatever was stored before, the
\* record of S has for each of the four fields the value of U when U carries
\* the field and otherwise the value it had before, and no field it had is
\* gone; the records of the other sessions are as they were, and that is the
\* store the next call finds.  So after U1 then U2 the record has the fields of
\* U1 written over by the fields U2 carries.
C21_FieldMerge ==
    \A i \in UpdateCalls :
        LET c == ctxLog[i]
        IN  /\ c.sessionId \in DOMAIN c.after
            /\ MergedInto(c.after[c.sessionId], Get(c.before, c.sessionId), c.context)
            /\ DOMAIN Get(c.before, c.sessionId) \subseteq DOMAIN c.after[c.sessionId]
            /\ DOMAIN c.after = DOMAIN c.before \cup {c.sessionId}
            /\ \A k \in DOMAIN c.before \ {c.sessionId} : c.after[k] = c.before[k]
            /\ StoreAfter(i) = c.after

\* C21 witness: U1 stored a cursor and files for s1, U2 carried another cursor
\* and a selection; the record has the cursor and the selection of U2 and the
\* files of U1
C21_Witness ==
    /\ Len(ctxLog) = 2
    /\ ctxLog[1].op = "update" /\ ctxLog[1].sessionId = <<"s1">>
    /\ ctxLog[1].context = [cursorPosition |-> Cursor1, files |-> <<File1, File2>>]
    /\ ctxLog[2].op = "update" /\ ctxLog[2].sessionId = <<"s1">>
    /\ ctxLog[2].context = [cursorPosition |-> Cursor2, selection |-> Sel1]
    /\ sessionContexts = (<<"s1">> :> [cursorPosition |-> Cursor2, selection |-> Sel1,
                                      files |-> <<File1, File2>>])

\* C22: when the host makes the same call updateEditorContext(S, U) twice in a
\* row, the store after the second call is the store after the first.
C22_MergeIdempotent ==
    \A i \in UpdateCalls :
        (/\ i + 1 \in UpdateCalls
         /\ ctxLog[i + 1].sessionId = ctxLog[i].sessionId
         /\ ctxLog[i + 1].context = ctxLog[i].context)
        => ctxLog[i + 1].after = ctxLog[i].after

\* C22 witness: the same update with a cursor, files and diagnostics was
\* applied twice to the empty-string session, and the record is the update
C22_Witness ==
    /\ Len(ctxLog) = 2
    /\ ctxLog[1].op = "update" /\ ctxLog[2].op = "update"
    /\ ctxLog[1].sessionId = EmptyString /\ ctxLog[2].sessionId = EmptyString
    /\ ctxLog[1].context = [cursorPosition |-> Cursor1, files |-> <<File1, File2>>,
                            diagnostics |-> <<Diag1, Diag2>>]
    /\ ctxLog[2].context = ctxLog[1].context
    /\ sessionContexts = (EmptyString :> ctxLog[1].context)

\* the calls of formatEditorContext among the calls of the host
FormatCalls == { i \in 1..Len(ctxLog) : ctxLog[i].op = "format" }

\* the parts of a text whose kind is in ks, each with its place in the text
Pick(text, ks) ==
    SelectSeq([i \in 1..Len(text) |-> [at |-> i, part |-> text[i]]],
              LAMBDA x : x.part.k \in ks)

\* the value of each field as it can be read back from a formatted text
ReadBack(text, f) ==
    LET hs == Pick(text, CASE f = "cursorPosition" -> {"Cursor: "}
                           [] f = "selection" -> {"Selected text in "}
                           [] f = "files" -> {"File: ", "Open file: "}
                           [] f = "diagnostics" -> {"  ["})
    IN  [j \in 1..Len(hs) |->
           LET p == hs[j].part
               at == hs[j].at
           IN  CASE f = "cursorPosition" ->
                      [path |-> p.path, line |-> p.line, column |-> p.column]
                 [] f = "selection" ->
                      [path |-> p.path, startLine |-> p.startLine, endLine |-> p.endLine,
                       text |-> text[at + 2].text]
                 [] f = "files" ->
                      IF p.k = "File: "
                        THEN [path |-> p.path, language |-> text[at + 1].lang,
                              content |-> text[at + 2].text]
                        ELSE [path |-> p.path]
                 [] f = "diagnostics" ->
                      [path |-> p.path, line |-> p.line, severity |-> p.severity,
                       message |-> p.message]]

\* a file as its block shows it: no content shows as the path alone, no
\* language as the empty tag
FileShown(file) ==
    IF "content" \in DOMAIN file /\ file.content # ""
      THEN [path |-> file.path, content |-> file.content,
            language |-> IF "language" \in DOMAIN file THEN file.language ELSE ""]
      ELSE [path |-> file.path]

\* what a text shows of field f when the context holds it
Shown(ctx, f) ==
    CASE f \in {"cursorPosition", "selection"} -> <<ctx[f]>>
      [] f = "files" -> [j \in 1..Len(ctx[f]) |-> FileShown(ctx[f][j])]
      [] f = "diagnostics" -> ctx[f]

\* the inline context of a chat request, empty when it has none
InlineOf(params) == IF "context" \in DOMAIN params THEN params.context ELSE <<>>

\* C23: for every call formatEditorContext(params, S) and each of the four
\* fields, the text shows the inline value when params carries the field
\* inline, otherwise the value stored for S when a session id is given and the
\* store holds the field for it, and otherwise nothing of that field.
C23_Precedence ==
    \A i \in FormatCalls :
        LET c == ctxLog[i]
            inline == InlineOf(c.params)
            stored == IF c.sessionId = NoSession THEN <<>> ELSE Get(c.before, c.sessionId)
        IN  \A f \in ContextFields :
                ReadBack(c.result, f) =
                    IF f \in DOMAIN inline THEN Shown(inline, f)
                    ELSE IF f \in DOMAIN stored THEN Shown(stored, f)
                    ELSE <<>>


\* the block a line opens or belongs to by its kind: 1 cursor, 2 selection,
\* 3 files, 4 diagnostics; 0 for the fences and text lines inside a block
BlockOf(part) ==
    CASE part.k = "Cursor: " -> 1
      [] part.k = "Selected text in " -> 2
      [] part.k \in {"File: ", "Open file: "} -> 3
      [] part.k \in {"Diagnostics:", "  ["} -> 4
      [] OTHER -> 0

\* the values a text may show of field f: that of the inline context and
\* that of the stored context of the session
Sources(c, f) ==
    { Shown(ctx, f) : ctx \in { x \in {InlineOf(c.params), Get(c.before, c.sessionId)} :
                                  f \in DOMAIN x } }

\* C24: in every text formatEditorContext returns the cursor line comes
\* before the selection block, that before the file blocks, those before the
\* diagnostics, and the files and the diagnostics are shown in the order of
\* the list they are taken from, whichever fields are present and whether
\* they are inline or stored.
C24_BlockOrder ==
    \A n \in FormatCalls :
        LET c == ctxLog[n]
        IN  /\ \A i, j \in 1..Len(c.result) :
                  (i < j /\ BlockOf(c.result[i]) > 0 /\ BlockOf(c.result[j]) > 0)
                  => BlockOf(c.result[i]) <= BlockOf(c.result[j])
            /\ \A f \in {"files", "diagnostics"} :
                  ReadBack(c.result, f) # <<>> => ReadBack(c.result, f) \in Sources(c, f)

\* a text with all four blocks, the cursor and the selection taken from the
\* store and two files and a diagnostic taken from the request
C24_Witness ==
    \E n \in FormatCalls :
        LET c == ctxLog[n]
        IN  /\ c.sessionId = <<"s1">>
            /\ DOMAIN InlineOf(c.params) = {"files", "diagnostics"}
            /\ DOMAIN Get(c.before, c.sessionId) = {"cursorPosition", "selection"}
            /\ Len(ReadBack(c.result, "files")) = 2
            /\ \A f \in ContextFields : ReadBack(c.result, f) # <<>>


\* the writes of a client that chats with and without editor context
Enriched == { Frame(h) : h \in {"INIT", "UPDATE", "CHAT", "CHATCTX"} }

NextEnriched ==
    \/ Start
    \/ OnData(Enriched, MaxWrites, FALSE)
    \/ Close(FALSE)
    \/ InjectResolve
    \/ InjectReject

SpecEnriched == Init /\ [][NextEnriched]_vars

\* the line is a chat/message frame with valid params
ValidChat(line) ==
    LET msg == parseNdjsonLine(line)
    IN  /\ msg.kind = "object"
        /\ Member(msg, "jsonrpc") = "2.0"
        /\ Member(msg, "method") = "chat/message"
        /\ AcpChatMessageRequestSchema(msg.obj)

\* the params of the frame on a line
LineParams(line) == parseNdjsonLine(line).obj.params

\* C25: when the engine is initialized and a data event completes one line, a
\* chat/message frame with valid params, the event calls bridge.inject once and
\* the text it hands over is the formatted context of the request and its
\* session, an empty line and the raw message (that is, the two joined by two
\* newlines) when the formatted context is not empty, and the raw message alone
\* when it is empty, as it is when the request has no inline context and the
\* Context Store has no record of the session.
C25_EnrichedMessage ==
    [][(initialized /\ Len(Completed) = 1 /\ ValidChat(Completed[1])) =>
          LET params == LineParams(Completed[1])
              S == IF "sessionId" \in DOMAIN params THEN params.sessionId
                   ELSE minted'[Len(minted')]
              shown == formatEditorContext(sessionContexts, params, S)
              raw == TextLine(params.message)
          IN  /\ Len(bridgeLog') = Len(bridgeLog) + 1
              /\ bridgeLog'[Len(bridgeLog')].op = "inject"
              /\ bridgeLog'[Len(bridgeLog')].message =
                     IF shown # <<>> THEN shown \o <<TextLine(""), raw>> ELSE <<raw>>
              /\ ("context" \notin DOMAIN params /\ S \notin DOMAIN sessionContexts)
                 => bridgeLog'[Len(bridgeLog')].message = <<raw>>
    ]_vars

\* C25 witness: the bridge got the raw message "hi" for a chat without any
\* context, and then for a chat with an inline selection the four lines of
\* the selection block, an empty line and the raw message "fix"
C25_Witness ==
    /\ Len(bridgeLog) >= 2
    /\ bridgeLog[1].op = "inject" /\ bridgeLog[1].message = <<TextLine("hi")>>
    /\ bridgeLog[2].op = "inject" /\ Len(bridgeLog[2].message) = 6
    /\ bridgeLog[2].message[1].k = "Selected text in "
    /\ bridgeLog[2].message[5] = TextLine("")
    /\ bridgeLog[2].message[6] = TextLine("fix")


\* the writes of a client whose chat turns hang: the handshake and a chat in
\* one write, a chat for the session s1, and frames of the kinds that do not
\* wait on the bridge
Hung == { Frame("INIT") \o Frame("CHAT"), Frame("INIT"), Frame("CHATS1"),
          Frame("CHATBAD"), Frame("CANCEL"), Frame("UPDATE"), Frame("PING"),
          <<"x", NL>> }

\* bridge.inject never completes
NextHung ==
    \/ Start
    \/ OnData(Hung, MaxWrites, FALSE)
    \/ Close(FALSE)
    \/ CancelCaught

\* the microtask that catches a throw of cancelInject runs
SpecHung == Init /\ [][NextHung]_vars /\ WF_vars(CancelCaught)

\* the chat turn of unit u waits on bridge.inject
Suspended(u) == u \in DOMAIN pending /\ pending[u].await = "inject"

\* what bridge.cancelInject threw in unit u is not caught yet
Thrown(u) == u \in DOMAIN pending /\ pending[u].await = "catch"

\* C26: while a chat turn is suspended on bridge.inject, a data event
\* dispatches every line it completes; every frame that arrived after the
\* turn was suspended and is not itself a chat/message that reached the bridge
\* has its one answer (on the output stream unless the engine is closed) as
\* soon as its handler has run, at the latest when the throw of its
\* cancelInject call is caught, which always happens.
C26_NoHeadOfLine ==
    /\ [][(\E v \in Units : Suspended(v)) => units' = units \o Completed]_vars
    /\ [](\A u \in Units :
             ((\E v \in 1..(u - 1) : Suspended(v)) /\ ~Accepted(u))
             => (AnsweredOnce(u) \/ Thrown(u)))
    /\ []<>(\A u \in Units : ~Thrown(u))

\* C26 witness: the chat turn of the second line is still suspended and the
\* two frames that came after it, an unknown method and a chat/cancel of the
\* session of the turn, have their answers on the output stream
C26_Witness ==
    /\ Len(units) = 4
    /\ Suspended(2)
    /\ \A u \in 3..4 : AnsweredOnce(u) /\ Answers(u)[1].written
    /\ IsRequest(3) /\ MethodOf(3) = "ping"
    /\ IsRequest(4) /\ MethodOf(4) = "chat/cancel"
    /\ BridgeOps(4, "cancelInject") # <<>>


\* the place in the history of the bridge of the first op of unit u
Where(u, op) ==
    CHOOSE i \in 1..Len(bridgeLog) :
        /\ bridgeLog[i].unit = u /\ bridgeLog[i].op = op
        /\ \A j \in 1..(i - 1) : ~(bridgeLog[j].unit = u /\ bridgeLog[j].op = op)

\* unit w is a chat/cancel for the session of the chat turn u that called
\* bridge.cancelInject while the turn was suspended on bridge.inject
CancelsInFlight(w, u) ==
    /\ w > u
    /\ IsRequest(w) /\ MethodOf(w) = "chat/cancel"
    /\ BridgeOps(w, "cancelInject") # <<>>
    /\ LineSession(units[w]) = TurnSession(u)
    /\ \A op \in {"resolve", "reject"} :
          BridgeOps(u, op) # <<>> => Where(w, "cancelInject") < Where(u, op)

\* C27: a chat/cancel for the session of a chat turn, handled while the turn
\* is suspended on bridge.inject, does not end the turn, whatever
\* bridge.cancelInject returns or throws: until the bridge call completes the
\* turn stays suspended and has no answer; when the call resolves, the last
\* frames of the turn are its chat/streamEnd and the response with the id of
\* the request, and it has no other answer; when the call rejects, the turn
\* sends no chat/streamEnd and its one answer is the error -32603.
C27_CancelDoesNotAbort ==
    \A u \in Units :
        (Accepted(u) /\ \E w \in Units : CancelsInFlight(w, u)) =>
            LET n == Len(Frames(u))
            IN  IF BridgeOps(u, "resolve") # <<>>
                  THEN /\ n >= 2
                       /\ SubSeq(Frames(u), n - 1, n) = EndOwed(u)
                       /\ Len(Answers(u)) = 1
                       /\ u \notin DOMAIN pending
                ELSE IF BridgeOps(u, "reject") # <<>>
                  THEN /\ AnsweredOnce(u)
                       /\ Answers(u)[1].frame =
                              ErrorFrame(IdOf(u), RPC_INTERNAL_ERROR, ErrMsg(FailureOf(u)))
                       /\ \A i \in 1..n :
                             "method" \in DOMAIN Frames(u)[i]
                             => Frames(u)[i].method # "chat/streamEnd"
                ELSE Suspended(u) /\ Answers(u) = <<>>

\* C27 witness: the bridge reported the turn of acp-1 cancelled, the bridge
\* call resolved afterwards, and the chat/streamEnd and the result of the turn
\* are on the output stream
C27_Witness ==
    \E u, w \in Units :
        /\ Accepted(u)
        /\ CancelsInFlight(w, u)
        /\ BridgeOps(w, "cancelInject")[1].outcome = [ret |-> TRUE]
        /\ BridgeOps(u, "resolve") # <<>>
        /\ Len(Calls(u)) >= 2
        /\ \A i \in 1..Len(Calls(u)) : Calls(u)[i].written
        /\ Frames(u)[Len(Frames(u)) - 1].method = "chat/streamEnd"
        /\ "result" \in DOMAIN Frames(u)[Len(Frames(u))]


\* the writes of a client that sends the handshake, a context and a chat,
\* which reach the engine in one chunk or in several
Ordered == { Frame(h) : h \in {"INIT", "UPDATE", "CHAT"} }

\* the chunk ends are kept; the engine stays open and the bridge calls too
NextOrdered ==
    \/ Start
    \/ OnData(Ordered, MaxWrites, TRUE)

SpecOrdered == Init /\ [][NextOrdered]_vars

\* the line is an initialize frame with valid params
ValidInitialize(line) ==
    LET msg == parseNdjsonLine(line)
    IN  /\ msg.kind = "object"
        /\ Member(msg, "jsonrpc") = "2.0"
        /\ Member(msg, "method") = "initialize"
        /\ AcpInitializeRequestSchema(msg.obj)

\* the bridge.inject calls of unit u in a history of the bridge
InjectsOf(log, u) == SelectSeq(log, LAMBDA c : c.unit = u /\ c.op = "inject")

\* the calls of the bridge that handlers make before they suspend
Starts == SelectSeq(bridgeLog, LAMBDA c : c.op \in {"inject", "cancelInject"})

\* the j-th line that the chunk of a step completes is a chat/message with
\* valid params, and the engine is initialized or a valid initialize comes
\* before it in the chunk
Begins(j) ==
    /\ ValidChat(Completed[j])
    /\ initialized \/ \E i \in 1..(j - 1) : ValidInitialize(Completed[i])

\* C28: the handlers begin in the order of the lines.  The calls of the
\* bridge are made in the order of the lines they belong to.  In a data event
\* a chat/message with valid params is handed to the bridge when the engine
\* is initialized or a valid initialize precedes it in the chunk, and the
\* session it has when it names none is acp-<n> for the next n in the order
\* of the lines, and the text handed over is built from the Context Store
\* as the context/update frames before it in the chunk have left it (no
\* context/update for its session follows it in the chunk).
C28_BeginInOrder ==
    /\ [](\A i, j \in 1..Len(Starts) : i < j => Starts[i].unit <= Starts[j].unit)
    /\ [][\A j \in 1..Len(Completed) :
            Begins(j)
            => LET u == Len(units) + j
                   params == LineParams(Completed[j])
                   S == IF "sessionId" \in DOMAIN params THEN params.sessionId
                        ELSE <<"acp", NumStr(sessionCounter + Cardinality(
                                 { i \in 1..j : Begins(i) /\ "sessionId" \notin
                                                    DOMAIN LineParams(Completed[i]) }))>>
                   shown == formatEditorContext(sessionContexts', params, S)
                   raw == TextLine(params.message)
               IN  /\ units'[u] = Completed[j]
                   /\ Len(InjectsOf(bridgeLog', u)) = 1
                   /\ (\A i \in (j + 1)..Len(Completed) :
                          ValidUpdate(Completed[i]) => LineSession(Completed[i]) # S)
                      => InjectsOf(bridgeLog', u)[1].message =
                             IF shown # <<>> THEN shown \o <<TextLine(""), raw>>
                             ELSE <<raw>>
       ]_vars

\* C28 witness: one chunk brought initialize, a context/update for acp-1 and
\* a chat/message; the chat reached the bridge under the minted id acp-1 with
\* the cursor of the update before its text
C28_Witness ==
    /\ Len(units) = 3 /\ writes = 3 /\ wire = <<>>
    /\ cuts = {Len(consumed)}
    /\ InitializeSucceeds(1)
    /\ IsRequest(2) /\ MethodOf(2) = "context/update"
    /\ Accepted(3) /\ TurnSession(3) = <<"acp", "1">>
    /\ Len(BridgeOps(3, "inject")[1].message) = 3
    /\ BridgeOps(3, "inject")[1].message[1].k = "Cursor: "


\* unit u is a chat/message frame with valid params that came after a valid
\* initialize
ChatAccepted(u) ==
    /\ IsRequest(u)
    /\ MethodOf(u) = "chat/message"
    /\ AcpChatMessageRequestSchema(Parsed(u).obj)
    /\ \E v \in 1..(u - 1) : InitializeSucceeds(v)

\* C29: every chat/message with valid params that the initialized engine
\* dispatches calls bridge.inject exactly once, and no other line (a
\* chat/message that is refused, initialize, chat/cancel, context/update,
\* unknown methods, text that is no frame) calls it at all.  The call names
\* the backend id that the mapping binds to the session of the turn: the
\* binding the session had, or else the one the handler makes (acp-S for a
\* session S of the client, the minted id itself otherwise).
C29_InjectOnce ==
    /\ [](\A u \in Units :
             Len(BridgeOps(u, "inject")) = IF ChatAccepted(u) THEN 1 ELSE 0)
    /\ [](\A i \in 1..Len(bridgeLog) : bridgeLog[i].unit \in Units)
    /\ [][(Len(Completed) = 1 /\ Begins(1)) =>
            LET params == LineParams(Completed[1])
                named == "sessionId" \in DOMAIN params
                S == IF named THEN params.sessionId ELSE minted'[Len(minted')]
                call == bridgeLog'[Len(bridgeLog')]
            IN  /\ bridgeLog' = Append(bridgeLog, call)
                /\ call.op = "inject" /\ call.unit = Len(units')
                /\ S \in DOMAIN sessions' /\ call.session = sessions'[S]
                /\ call.session = IF ~named THEN S
                                  ELSE IF S \in DOMAIN sessions THEN sessions[S]
                                  ELSE defaultSession \o S
       ]_vars

\* C29 witness: after the handshake the chat without a session reached the
\* bridge once under the minted acp-1 and the chat for the session s1 once
\* under the backend id acp-s1; the chat/message without params between them
\* was answered with an error and did not reach it
C29_Witness ==
    /\ Len(units) = 4
    /\ InitializeSucceeds(1)
    /\ ChatAccepted(2) /\ TurnSession(2) = <<"acp", "1">>
    /\ BridgeOps(2, "inject")[1].session = <<"acp", "1">>
    /\ IsRequest(3) /\ MethodOf(3) = "chat/message" /\ AnsweredOnce(3)
    /\ "error" \in DOMAIN Answers(3)[1].frame
    /\ ChatAccepted(4) /\ TurnSession(4) = <<"s1">>
    /\ BridgeOps(4, "inject")[1].session = <<"acp", "s1">>
    /\ Len(SelectSeq(bridgeLog, LAMBDA c : c.op = "inject")) = 2


-----------------------------------------------------------------------------
(* index.ts: the plugin.  The engine of the model is the server that the     *)
(* module variable acpServer holds; a server that init replaces is followed  *)
(* no further.                                                               *)

\* the plugin contexts a host hands to init
PluginContexts == {"ctx1", "ctx2"}

\* the calls of init and shutdown so far
PluginCalls == SelectSeq(extLog, LAMBDA c : c.op \in {"init", "shutdown"})

\* plugin.init(ctx): a new AcpServer is constructed, kept in acpServer and
\* registered with ctx as the extension "acp:server"
PluginInit ==
    \E ctx \in PluginContexts :
        /\ Len(PluginCalls) < MaxPluginCalls
        /\ acpServer' = [kind |-> "AcpServer"]
        /\ extLog' = extLog \o << [op |-> "init", ctx |-> ctx, name |-> ""],
                                  [op |-> "registerExtension", ctx |-> ctx,
                                   name |-> "acp:server"] >>
        /\ started' = FALSE
        /\ closed' = FALSE
        /\ initialized' = FALSE
        /\ buffer' = <<>>
        /\ sessions' = <<>>
        /\ sessionCounter' = 0
        /\ output' = <<>>
        /\ pending' = <<>>
        /\ wire' = <<>>
        /\ writes' = 0
        /\ consumed' = <<>>
        /\ units' = <<>>
        /\ sendLog' = <<>>
        /\ minted' = <<>>
        /\ bridgeLog' = <<>>
        /\ UNCHANGED <<sessionContexts, cuts, ctxLog, closeLog>>

\* plugin.shutdown() that closes the server but keeps the reference to it
PluginShutdown_KeepsServer ==
    /\ Len(PluginCalls) < MaxPluginCalls
    /\ extLog' = Append(extLog, [op |-> "shutdown", ctx |-> "", name |-> ""])
    /\ IF acpServer # Null
         THEN /\ Becomes(close(Engine))
              /\ acpServer' = acpServer
         ELSE /\ Becomes(Engine)
              /\ acpServer' = acpServer
    /\ UNCHANGED <<started, wire, writes, consumed, cuts, ctxLog, closeLog>>

\* plugin.shutdown(): closes the server that acpServer holds and forgets it
PluginShutdown ==
    /\ Len(PluginCalls) < MaxPluginCalls
    /\ extLog' = Append(extLog, [op |-> "shutdown", ctx |-> "", name |-> ""])
    /\ IF acpServer # Null
         THEN /\ Becomes(close(Engine))
              /\ acpServer' = Null
         ELSE /\ Becomes(Engine)
              /\ acpServer' = acpServer
    /\ UNCHANGED <<started, wire, writes, consumed, cuts, ctxLog, closeLog>>

\* the host has a server: init was called
Registered == \E i \in 1..Len(extLog) : extLog[i].op = "registerExtension"

\* the host starts the server it was given, and a client chats with it
NextPlugin ==
    \/ PluginInit
    \/ PluginShutdown
    \/ Registered /\ Start
    \/ Registered /\ OnData(Chats, MaxChatWrites, FALSE)
    \/ InjectResolve

SpecPlugin == Init /\ [][NextPlugin]_vars

\* the i-th entry of the history is a call of shutdown made while the plugin
\* held a server: the call of init or shutdown before it was init
HeldServer(i) ==
    \E j \in 1..(i - 1) :
        /\ extLog[j].op = "init"
        /\ \A k \in (j + 1)..(i - 1) : extLog[k].op # "shutdown"

\* the context of the last init before the i-th entry
InitContext(i) ==
    LET j == CHOOSE j \in 1..(i - 1) :
                 /\ extLog[j].op = "init"
                 /\ \A k \in (j + 1)..(i - 1) : extLog[k].op # "init"
    IN  extLog[j].ctx

\* the calls of ctx that the plugin call at the i-th entry made
CtxCalls(i) ==
    LET next == { k \in (i + 1)..Len(extLog) : extLog[k].op \in {"init", "shutdown"} }
        end == IF next = {} THEN Len(extLog)
               ELSE (CHOOSE k \in next : \A h \in next : k <= h) - 1
    IN  SubSeq(extLog, i + 1, end)

\* C30: a call of shutdown() after init(ctx) calls
\* ctx.unregisterExtension("acp:server") once, on the context that init was
\* given, and a call of shutdown() when the plugin holds no server (before
\* any init, or after a shutdown) calls nothing of a context.
C30_ShutdownUnregisters ==
    \A i \in 1..Len(extLog) :
        extLog[i].op = "shutdown" =>
            CtxCalls(i) = IF HeldServer(i)
                            THEN << [op |-> "unregisterExtension", ctx |-> InitContext(i),
                                     name |-> "acp:server"] >>
                            ELSE <<>>


\* the step is a call of plugin.shutdown()
ShutdownCalled ==
    /\ Len(extLog') = Len(extLog) + 1
    /\ extLog'[Len(extLog')].op = "shutdown"

\* C31: a call of shutdown() while the plugin holds a server closes that
\* server (the one the last init constructed): it is closed afterwards, its
\* session mapping is empty, and the plugin holds no server any more.  A call
\* of shutdown() while the plugin holds none, after a shutdown or before any
\* init, changes nothing of the server and of the plugin.
C31_ShutdownCloses ==
    [][ShutdownCalled =>
          IF acpServer # Null
            THEN /\ closed' /\ sessions' = <<>>
                 /\ acpServer' = Null
                 /\ UNCHANGED <<started, initialized, buffer, sessionCounter, output,
                                pending, units, sendLog, bridgeLog>>
            ELSE /\ acpServer' = Null
                 /\ UNCHANGED <<started, closed, initialized, buffer, sessions,
                                sessionCounter, sessionContexts, output, pending, units,
                                sendLog, minted, bridgeLog>>
    ]_vars

\* C31 witness: init, then the server was started and bound a session in a
\* chat, then shutdown closed it, and shutdown was called once more; the
\* server is closed, its mapping is empty and the plugin holds none
C31_Witness ==
    /\ Len(PluginCalls) = 3
    /\ PluginCalls[1].op = "init"
    /\ PluginCalls[2].op = "shutdown" /\ PluginCalls[3].op = "shutdown"
    /\ started /\ closed /\ acpServer = Null
    /\ minted # <<>> /\ sessions = <<>>


\* the writes of a client that chats in sessions it names and in sessions
\* the engine mints
Isolated == { Frame(h) : h \in {"INIT", "CHAT", "CHAT1", "CHATS1"} }

NextIsolated ==
    \/ Start
    \/ OnData(Isolated, MaxWrites, FALSE)
    \/ Close(FALSE)
    \/ InjectResolve

SpecIsolated == Init /\ [][NextIsolated]_vars

\* C32: the session mapping is injective: two different client session ids,
\* minted or named by the client, are never bound to the same backend id.
C32_Injective ==
    \A a, b \in DOMAIN sessions : a # b => sessions[a] # sessions[b]


\* C33: once the engine is closed its session mapping is empty and the
\* Context Store holds no record (every record there is of a session that
\* this engine registered), whatever arrives on the input afterwards.
C33_CleanupFinal == closed => (sessions = <<>> /\ sessionContexts = <<>>)


\* C34: once the engine is closed, no step calls bridge.inject or
\* bridge.cancelInject: the calls of the bridge made by handlers are what they
\* were before the step.
C34_NoBridgeAfterClose ==
    [][closed =>
          SelectSeq(bridgeLog', LAMBDA c : c.op \in {"inject", "cancelInject"})
          = SelectSeq(bridgeLog, LAMBDA c : c.op \in {"inject", "cancelInject"})]_vars


\* the chat/streamEnd notifications that unit u has sent
StreamEnds(u) ==
    SelectSeq(Frames(u), LAMBDA f : "method" \in DOMAIN f /\ f.method = "chat/streamEnd")

\* the chat/streamChunk notifications that unit u has sent
StreamChunks(u) ==
    SelectSeq(Frames(u), LAMBDA f : "method" \in DOMAIN f /\ f.method = "chat/streamChunk")

\* C35: a chat turn has sent chat/streamEnd exactly when its answer is a
\* result, and then once and right before the result.  A turn whose bridge
\* call rejected, also after chat/streamChunk notifications, has sent no
\* chat/streamEnd; its answer is the error -32603 with the text of the
\* rejection, the last frame of the turn.
C35_EndIffResult ==
    \A u \in Units :
        Accepted(u) =>
            LET n == Len(Frames(u))
            IN  /\ StreamEnds(u) # <<>>
                   <=> (Answers(u) # <<>> /\ "result" \in DOMAIN Answers(u)[1].frame)
                /\ Len(StreamEnds(u)) <= 1 /\ Len(Answers(u)) <= 1
                /\ StreamEnds(u) # <<>> =>
                      /\ n >= 2
                      /\ Frames(u)[n - 1] = StreamEnds(u)[1]
                      /\ Frames(u)[n] = Answers(u)[1].frame
                /\ InjectRejected(u) =>
                      /\ StreamEnds(u) = <<>>
                      /\ Len(Answers(u)) = 1
                      /\ Frames(u)[n] =
                             ErrorFrame(IdOf(u), RPC_INTERNAL_ERROR, ErrMsg(FailureOf(u)))
                      /\ n = Len(StreamChunks(u)) + 1

\* C35 witness: a turn streamed a chunk and then its bridge call rejected;
\* the chunk and the error -32603 are on the output stream, and nothing else
\* of the turn
C35_Witness ==
    \E u \in Units :
        /\ Accepted(u) /\ InjectRejected(u)
        /\ Len(StreamChunks(u)) = 1
        /\ Len(Calls(u)) = 2
        /\ Calls(u)[1].written /\ Calls(u)[2].written
        /\ "error" \in DOMAIN Calls(u)[2].frame
        /\ Calls(u)[2].frame.error.code = RPC_INTERNAL_ERROR


\* frame f is the chat/streamEnd notification of some turn
IsStreamEnd(f) == "method" \in DOMAIN f /\ f.method = "chat/streamEnd"

\* C36: the chat/streamEnd notification of a turn and the final response of
\* that turn are adjacent: on the output stream every chat/streamEnd is
\* followed at once by a result for the same session, and among the calls of
\* send the one after a chat/streamEnd is the result of the same unit, written
\* exactly when the notification was, whatever other turns are in flight.
C36_AtomicTermination ==
    /\ \A j \in 1..Len(output) :
         IsStreamEnd(output[j]) =>
           /\ j < Len(output)
           /\ "result" \in DOMAIN output[j + 1]
           /\ output[j + 1].result.sessionId = output[j].params.sessionId
    /\ \A i \in 1..Len(sendLog) :
         IsStreamEnd(sendLog[i].frame) =>
           /\ i < Len(sendLog)
           /\ sendLog[i + 1].unit = sendLog[i].unit
           /\ "result" \in DOMAIN sendLog[i + 1].frame
           /\ sendLog[i + 1].frame.id = IdOf(sendLog[i].unit)
           /\ sendLog[i + 1].written = sendLog[i].written
    /\ \A u \in Units :
         (Accepted(u) /\ \E i \in 1..Len(sendLog) :
                            /\ sendLog[i].unit = u /\ sendLog[i].written
                            /\ "result" \in DOMAIN sendLog[i].frame) =>
           \E i \in 2..Len(sendLog) :
               /\ sendLog[i].unit = u /\ "result" \in DOMAIN sendLog[i].frame
               /\ sendLog[i - 1].unit = u /\ IsStreamEnd(sendLog[i - 1].frame)
               /\ sendLog[i - 1].written

\* two turns were in flight together and the later one finished first, while
\* the engine was open: four frames, each chat/streamEnd next to its result
C36_Witness ==
    /\ ~closed
    /\ \E u, v \in Units :
         /\ u < v /\ Accepted(u) /\ Accepted(v)
         /\ AnswerAt(u) > 0 /\ AnswerAt(v) > 0 /\ AnswerAt(v) < AnswerAt(u)
         /\ \E k \in 1..Len(bridgeLog) :
              /\ bridgeLog[k].op = "inject" /\ bridgeLog[k].unit = v
              /\ \A m \in 1..k : ~(bridgeLog[m].op = "resolve" /\ bridgeLog[m].unit = u)
         /\ sendLog[AnswerAt(u)].written /\ sendLog[AnswerAt(v)].written
         /\ "result" \in DOMAIN sendLog[AnswerAt(u)].frame
         /\ "result" \in DOMAIN sendLog[AnswerAt(v)].frame
    /\ Cardinality({j \in 1..Len(output) : IsStreamEnd(output[j])}) = 2


\* the error codes of a frame that is rejected before it is handled
Rejections ==
    {RPC_PARSE_ERROR, RPC_INVALID_REQUEST, RPC_METHOD_NOT_FOUND, RPC_INVALID_PARAMS}

\* the k-th send call of a step is an error with one of the rejection codes
Rejects(k) == "error" \in DOMAIN Sent(k).frame /\ Sent(k).frame.error.code \in Rejections

\* C37: a data event whose chunk completes lines that are all rejected, each
\* answered with one error -32700, -32600, -32601 or -32602, leaves the
\* initialized flag, the session mapping, the session counter and the Context
\* Store as they were and calls nothing of the bridge; no handler is left
\* suspended by it.
C37_RejectedNoEffect ==
    [][(/\ Len(Completed) >= 1
        /\ Len(sendLog') = Len(sendLog) + Len(Completed)
        /\ \A k \in 1..Len(Completed) : Rejects(k)) =>
          /\ units' = units \o Completed
          /\ \A k \in 1..Len(Completed) : Sent(k).unit = Len(units) + k
          /\ UNCHANGED <<initialized, sessions, sessionCounter, sessionContexts,
                         bridgeLog, minted, pending, closed>>
    ]_vars

\* after the handshake and an accepted chat, a chat/message without params and
\* a line that is not JSON were rejected: each has exactly one send call, the
\* error, and no call of the bridge, and the mapping still holds one session
C37_Witness ==
    /\ initialized
    /\ DOMAIN sessions = {<<"acp", "1">>}
    /\ sessionCounter = 1
    /\ \E u, v \in Units :
         /\ u # v
         /\ \A x \in {u, v} :
              /\ Len(Calls(x)) = 1
              /\ "error" \in DOMAIN Calls(x)[1].frame
              /\ \A op \in {"inject", "cancelInject"} : BridgeOps(x, op) = <<>>
         /\ Calls(u)[1].frame.error.code = RPC_INVALID_PARAMS
         /\ Calls(v)[1].frame.error.code = RPC_PARSE_ERROR


\* the line is a frame with jsonrpc "2.0" and the method chat/message
IsChatLine(line) ==
    LET msg == parseNdjsonLine(line)
    IN  /\ msg.kind = "object"
        /\ Member(msg, "jsonrpc") = "2.0"
        /\ Member(msg, "method") = "chat/message"

\* unit u is a context/update that was answered with a result
UpdateSucceeded(u) ==
    /\ IsRequest(u) /\ MethodOf(u) = "context/update"
    /\ Calls(u) # <<>> /\ "result" \in DOMAIN Calls(u)[1].frame

\* C38: chat/message never writes to the Context Store.  A data event whose
\* chunk completes only chat/message frames, with or without inline context,
\* leaves the Context Store as it was, and so does the completion or the
\* failure of a turn; and an accepted chat/message without inline context,
\* for a session that no successful context/update before it named, hands
\* the bridge the raw message alone, whatever inline context earlier
\* chat/message frames of that session carried.
C38_ChatNeverStores ==
    /\ [][((\A j \in 1..Len(Completed) : IsChatLine(Completed[j])) /\ closed' = closed)
            => sessionContexts' = sessionContexts]_vars
    /\ [](\A u \in Units :
            (/\ Accepted(u)
             /\ "context" \notin DOMAIN Parsed(u).obj.params
             /\ \A v \in 1..(u - 1) :
                  UpdateSucceeded(v) => Parsed(v).obj.params.sessionId # TurnSession(u)) =>
               BridgeOps(u, "inject")[1].message
                 = <<TextLine(Parsed(u).obj.params.message)>>)

\* a chat/message with an inline selection for the session acp-1 was handed
\* over with its selection block, then a chat/message of the same session
\* without inline context was handed over as the raw message alone, and the
\* Context Store is empty
C38_Witness ==
    /\ sessionContexts = <<>>
    /\ ~closed
    /\ \E u, v \in Units :
         /\ u < v /\ Accepted(u) /\ Accepted(v)
         /\ "context" \in DOMAIN Parsed(u).obj.params
         /\ "context" \notin DOMAIN Parsed(v).obj.params
         /\ TurnSession(u) = <<"acp", "1">> /\ TurnSession(v) = <<"acp", "1">>
         /\ Len(BridgeOps(u, "inject")[1].message) = 6
         /\ BridgeOps(v, "inject")[1].message = <<TextLine("hi")>>


\* C39: the text after the last newline is never dispatched.  At every moment
\* the buffer holds no newline and is the text that arrived after the last
\* newline, the lines dispatched are as many as the newline-terminated
\* non-blank lines that arrived, and every send call belongs to one of them;
\* and a step that is not a data event (close() by the host, or by the end or
\* the error of the input) dispatches nothing, sends nothing, writes nothing
\* and leaves the buffer as it was.
C39_TrailingNeverDispatched ==
    /\ [](/\ \A i \in 1..Len(buffer) : buffer[i] # NL
          /\ buffer = Unterminated(consumed)
          /\ Len(units) = Len(CompleteLines(consumed))
          /\ \A i \in 1..Len(units) : \A j \in 1..Len(units[i]) : units[i][j] # NL
          /\ \A i \in 1..Len(sendLog) : sendLog[i].unit \in Units)
    /\ [][Arrived = <<>> =>
            UNCHANGED <<units, buffer, sendLog, output, bridgeLog>>]_vars

\* the handshake was answered, then a whole ping frame arrived without its
\* newline and the engine was closed: the frame is in the buffer, one line was
\* dispatched and one frame sent
C39_Witness ==
    /\ closed
    /\ buffer = <<"PING", CL>>
    /\ Len(units) = 1
    /\ Len(sendLog) = 1 /\ sendLog[1].written
    /\ Len(output) = 1


\* the writes of a client that sends lines holding JSON values of other kinds
\* than an object, next to frames and a line that is not JSON
Values == { Frame("INIT"), Frame("PING"), <<"null", NL>>, <<"7", NL>>, <<"x", NL>>,
            <<SP, "null", SP, NL>> }

NextValues ==
    \/ Start
    \/ OnData(Values, MaxWrites, FALSE)
    \/ Close(FALSE)

SpecValues == Init /\ [][NextValues]_vars

\* C40: the error -32700 is sent only for a line that is not blank and is not
\* valid JSON: a dispatched line for which a parse error was sent is one that
\* JSON.parse rejects, so a line holding a JSON value of any kind, null
\* included, is never answered with a parse error.
C40_ParseErrorOnlyForBadJson ==
    \A u \in Units :
        (\E i \in 1..Len(Calls(u)) :
            /\ "error" \in DOMAIN Calls(u)[i].frame
            /\ Calls(u)[i].frame.error.code = RPC_PARSE_ERROR) =>
          /\ trim(units[u]) # <<>>
          /\ JSONparse(trim(units[u])) = Failed
====
